---- MODULE Spec2Model ----
(***************************************************************************)
(* Model of the qubee_nlp linguistic pipeline: character model,            *)
(* syllabifier, normalizer, tokenizer and stemmer.                         *)
(*                                                                         *)
(* A text is a sequence of characters; a character is a one-character      *)
(* string, or the name of its code point ("U+00E9") when it is not ASCII.  *)
(* Indices follow the source: i is 0-based, Slice(w, a, b) is w[a:b].      *)
(***************************************************************************)
EXTENDS Integers, Sequences, FiniteSets, TLC

VARIABLES
    pc,          \* position of the caller: "input", "done", "again"
    word,        \* the text handed to the operation under study
    strict,      \* the strict flag of the object
    syllables,   \* Syllabifier.syllabify(word)
    again,       \* Syllabifier.syllabify("".join(syllables))
    config,      \* the flags of the TextNormalizer
    normalized,  \* TextNormalizer.normalize(word)
    renormalized, \* TextNormalizer.normalize(normalized)
    preserve_case, \* the preserve_case flag of the QubeeTokenizer
    tokens,      \* outcome of QubeeTokenizer.tokenize(word)
    positions,   \* outcome of QubeeTokenizer.tokenize_with_positions(word)
    contexts,    \* outcome of QubeeTokenizer.tokenize_with_context(word, n)
    sentences,   \* outcome of QubeeTokenizer.sentence_tokenize(word)
    stemmed,     \* QubeeStemmer.stem(word)
    stopwords,   \* StopWords.stopwords, the set of the instance
    words,       \* the token list handed to remove_stopwords or tag
    check_variants, \* the check_variants argument
    kept,        \* StopWords.remove_stopwords(words, check_variants)
    tags,        \* QubeePOSTagger.tag(words)
    validation,  \* outcome of validate_qubee_text(word, strict)
    char_class,  \* is_vowel, is_consonant, is_qubee_letter of a character
    check_level, \* the check_level argument of validate_text
    report,      \* outcome of validate_text or validate_word
    split_loop,  \* the locals of alphabet.split_into_syllables(word)
    last_mutation, \* per word, the last call of the caller that named it
    is_stop      \* outcome of StopWords.is_stopword(word)

vars == <<pc, word, strict, syllables, again, config, normalized, renormalized,
          preserve_case, tokens, positions, contexts, sentences, stemmed,
          stopwords, words, check_variants, kept, tags, validation,
          char_class, check_level, report, split_loop,
          last_mutation, is_stop>>

sylVars == <<syllables, again>>

normVars == <<config, normalized, renormalized>>

tokVars == <<preserve_case, tokens, positions, contexts, sentences>>

stopVars == <<stopwords, words, check_variants, kept>>

valVars == <<validation, char_class, check_level, report>>

mutVars == <<last_mutation, is_stop>>

restVars == <<stopVars, tags, valVars, split_loop, mutVars>>

\* the locals of split_into_syllables before the call
NoSplit == [word |-> <<>>, i |-> 0, syllables |-> <<>>]

\* no word has been named in a call yet, no question asked
MutIdle ==
    /\ last_mutation = <<>>
    /\ is_stop = [status |-> "none", value |-> <<>>]

\* the components a specification does not exercise stay as constructed
RestIdle ==
    /\ stopwords = {}
    /\ words = <<>>
    /\ check_variants = TRUE
    /\ kept = <<>>
    /\ tags = <<>>
    /\ validation = [status |-> "none", value |-> <<>>]
    /\ char_class = [status |-> "none", value |-> <<>>]
    /\ check_level = "basic"
    /\ report = [status |-> "none", value |-> <<>>]
    /\ split_loop = NoSplit
    /\ MutIdle

(***************************************************************************)
(* Bounds                                                                  *)
(***************************************************************************)
MaxWordLen == 4

MaxTextLen == 3

MaxTokTextLen == 4

MaxContextChars == 2

MaxSentLen == 6

MaxStemLen == 5

\* longest token list handed to remove_stopwords and tag
MaxTokens == 3

\* longest typed part of a token handed to the tagger
MaxTagLen == 3

\* longest text handed to the validation functions
MaxValLen == 4

\* longest letter-only word handed to both syllable splitters
MaxParseLen == 5

\* longest string handed to split_into_syllables alone
MaxSplitLen == 3

(***************************************************************************)
(* Generic sequence helpers                                                *)
(***************************************************************************)
Range(s) == {s[k] : k \in DOMAIN s}

Slice(s, a, b) == SubSeq(s, a + 1, b)

At(s, i) == s[i + 1]

RECURSIVE Join(_)
Join(parts) ==
    IF parts = <<>> THEN <<>> ELSE Head(parts) \o Join(Tail(parts))

(***************************************************************************)
(* Character model (alphabet.py and the str methods the code relies on)    *)
(***************************************************************************)
LowerAscii == <<"a","b","c","d","e","f","g","h","i","j","k","l","m",
                "n","o","p","q","r","s","t","u","v","w","x","y","z">>

UpperAscii == <<"A","B","C","D","E","F","G","H","I","J","K","L","M",
                "N","O","P","Q","R","S","T","U","V","W","X","Y","Z">>

AsciiLetters == Range(LowerAscii) \cup Range(UpperAscii)

\* lower-case / upper-case pairs outside ASCII
LowerLatin1 == <<"U+00E1", "U+00E9", "U+00ED", "U+00F3", "U+00FA",
                 "U+00E0", "U+00F8">>

UpperLatin1 == <<"U+00C1", "U+00C9", "U+00CD", "U+00D3", "U+00DA",
                 "U+00C0", "U+00D8">>

upper(c) ==
    IF \E k \in DOMAIN LowerAscii : LowerAscii[k] = c
    THEN UpperAscii[CHOOSE k \in DOMAIN LowerAscii : LowerAscii[k] = c]
    ELSE IF \E k \in DOMAIN LowerLatin1 : LowerLatin1[k] = c
    THEN UpperLatin1[CHOOSE k \in DOMAIN LowerLatin1 : LowerLatin1[k] = c]
    ELSE c

lower(c) ==
    IF \E k \in DOMAIN UpperAscii : UpperAscii[k] = c
    THEN LowerAscii[CHOOSE k \in DOMAIN UpperAscii : UpperAscii[k] = c]
    ELSE IF \E k \in DOMAIN UpperLatin1 : UpperLatin1[k] = c
    THEN LowerLatin1[CHOOSE k \in DOMAIN UpperLatin1 : UpperLatin1[k] = c]
    ELSE c

Digits == {"0","1","2","3","4","5","6","7","8","9"}

Whitespace == {" ", "\t", "\n"}

isspace(c) == c \in Whitespace

CONSONANTS == {"B","C","D","F","G","H","J","K","L","M",
               "N","P","Q","R","S","T","V","W","X","Y","Z"}

VOWELS == {"A","E","I","O","U"}

is_consonant(c) == upper(c) \in CONSONANTS

is_vowel(c) == upper(c) \in VOWELS

DIGRAPHS == {<<"C","H">>, <<"D","H">>, <<"N","Y">>, <<"P","H">>, <<"S","H">>}

DIPHTHONGS == {<<"A","A">>, <<"E","E">>, <<"I","I">>, <<"O","O">>, <<"U","U">>}

(***************************************************************************)
(* Syllabifier (syllabifier.py)                                            *)
(***************************************************************************)
digraphs == {<<"c","h">>, <<"d","h">>, <<"n","y">>, <<"p","h">>, <<"s","h">>}

\* unicodedata.normalize("NFKD", c).encode("ASCII", "ignore"): an ASCII
\* character stays, an accented letter keeps its base letter, any other
\* non-ASCII character disappears.
NFKDAscii(c) ==
    CASE c \in {"U+00E1", "U+00E0"} -> <<"a">>
      [] c = "U+00E9" -> <<"e">>
      [] c = "U+00ED" -> <<"i">>
      [] c = "U+00F3" -> <<"o">>
      [] c = "U+00FA" -> <<"u">>
      [] c \in {"U+00C1", "U+00C0"} -> <<"A">>
      [] c = "U+00C9" -> <<"E">>
      [] c = "U+00CD" -> <<"I">>
      [] c = "U+00D3" -> <<"O">>
      [] c = "U+00DA" -> <<"U">>
      [] c \in {"U+00F8", "U+00D8", "U+0301", "U+0300",
                "U+200B", "U+2019", "U+2013", "U+2026", "U+20AC"} -> <<>>
      [] OTHER -> <<c>>

RECURSIVE _normalize_word(_)
_normalize_word(w) ==
    IF w = <<>> THEN <<>>
    ELSE LET d == NFKDAscii(Head(w))
         IN  [k \in DOMAIN d |-> lower(d[k])] \o _normalize_word(Tail(w))

_contains_digit(w) == \E k \in DOMAIN w : w[k] \in Digits

_is_valid_word(w) ==
    /\ w # <<>>
    /\ \A k \in DOMAIN w : w[k] \in AsciiLetters \cup {"'", "-"}

\* re.fullmatch(r"[a-z'-]+", word)
StrictMatch(w) ==
    /\ w # <<>>
    /\ \A k \in DOMAIN w : w[k] \in Range(LowerAscii) \cup {"'", "-"}

\* not word or not word.strip()
IsBlank(w) == \A k \in DOMAIN w : isspace(w[k])

\* str.split(sep): the parts between the separators, empty parts included
RECURSIVE split(_, _)
split(w, sep) ==
    IF \A k \in DOMAIN w : w[k] # sep THEN <<w>>
    ELSE LET p == CHOOSE k \in DOMAIN w :
                      /\ w[k] = sep
                      /\ \A j \in 1..(k - 1) : w[j] # sep
         IN  <<SubSeq(w, 1, p - 1)>> \o split(SubSeq(w, p + 1, Len(w)), sep)

\* onset loop (lines 77-83): the index after the consumed consonants
RECURSIVE OnsetEnd(_, _)
OnsetEnd(w, i) ==
    IF i < Len(w) /\ is_consonant(At(w, i))
    THEN IF i + 1 < Len(w) /\ Slice(w, i, i + 2) \in digraphs
         THEN OnsetEnd(w, i + 2)
         ELSE OnsetEnd(w, i + 1)
    ELSE i

\* the faulty variant consumes one nucleus unit: a doubled vowel or a single
\* vowel
NucleusEndOneUnit(w, i) ==
    IF i < Len(w) /\ is_vowel(At(w, i))
    THEN IF /\ i + 1 < Len(w)
            /\ <<upper(At(w, i)), upper(At(w, i + 1))>> \in DIPHTHONGS
         THEN i + 2
         ELSE i + 1
    ELSE i

\* nucleus loop (lines 86-88): the index after the consumed vowels
RECURSIVE NucleusEnd(_, _)
NucleusEnd(w, i) ==
    IF i < Len(w) /\ is_vowel(At(w, i)) THEN NucleusEnd(w, i + 1) ELSE i

\* the faulty variant attaches the consonant without the digraph test
CodaEndIgnoringDigraphs(w, i) ==
    IF /\ i < Len(w)
       /\ is_consonant(At(w, i))
       /\ (i + 1 = Len(w) \/ is_consonant(At(w, i + 1)))
    THEN i + 1
    ELSE i

\* the faulty variant attaches every consonant that follows the nucleus
CodaEndAnyConsonant(w, i) ==
    IF i < Len(w) /\ is_consonant(At(w, i)) THEN i + 1 ELSE i

\* coda step (lines 94-103): the index after the optional coda consonant
CodaEnd(w, i) ==
    IF /\ i < Len(w)
       /\ is_consonant(At(w, i))
       /\ \/ i + 1 = Len(w)
          \/ /\ is_consonant(At(w, i + 1))
             /\ Slice(w, i, i + 2) \notin digraphs
    THEN i + 1
    ELSE i

\* the while loop (lines 71-105): the index and the syllables it ends with
RECURSIVE ParseLoop(_, _, _)
ParseLoop(w, i, syls) ==
    IF i < Len(w)
    THEN LET o == OnsetEnd(w, i)
             v == NucleusEnd(w, o)
             c == CodaEnd(w, v)
         IN  IF v = o
             THEN [i |-> o, syllables |-> syls]
             ELSE ParseLoop(w, c,
                    Append(syls, Slice(w, i, o) \o Slice(w, o, v) \o Slice(w, v, c)))
    ELSE [i |-> i, syllables |-> syls]

\* leftover attachment (lines 108-112)
AttachLeftovers(w, r) ==
    IF r.i < Len(w)
    THEN IF r.syllables # <<>>
         THEN [r.syllables EXCEPT ![Len(r.syllables)] = @ \o Slice(w, r.i, Len(w))]
         ELSE <<Slice(w, r.i, Len(w))>>
    ELSE r.syllables

\* the separator-free part of syllabify (lines 67-122)
ParseSegment(w) ==
    LET syls == AttachLeftovers(w, ParseLoop(w, 0, <<>>))
    IN  IF Join(syls) # w THEN <<w>>
        ELSE IF syls = <<>> THEN <<w>>
        ELSE syls

\* the separator found by the loop of line 60, "" when there is none:
\* the faulty variant looks for the apostrophe only
FirstSepApostropheOnly(w) ==
    IF "'" \in Range(w) THEN "'" ELSE ""

FirstSep(w) ==
    IF "'" \in Range(w) THEN "'"
    ELSE IF "-" \in Range(w) THEN "-"
    ELSE ""

RECURSIVE syllabify(_, _)

\* the faulty variant assigns instead of extending (result = ...): only the
\* syllables of the last part survive
SyllabifyPartsLastOnly(parts, st) ==
    IF parts = <<>> THEN <<>> ELSE syllabify(parts[Len(parts)], st)

\* the faulty variant prepends the syllables of each part to the result
RECURSIVE SyllabifyPartsReversed(_, _)
SyllabifyPartsReversed(parts, st) ==
    IF parts = <<>> THEN <<>>
    ELSE SyllabifyPartsReversed(Tail(parts), st) \o syllabify(Head(parts), st)

\* lines 62-65: result.extend(self.syllabify(part)) for each part
RECURSIVE SyllabifyParts(_, _)
SyllabifyParts(parts, st) ==
    IF parts = <<>> THEN <<>>
    ELSE syllabify(Head(parts), st) \o SyllabifyParts(Tail(parts), st)

syllabify(w0, st) ==
    IF w0 = <<>> \/ IsBlank(w0) THEN <<>>
    ELSE LET w == _normalize_word(w0)
         IN  IF _contains_digit(w) THEN <<>>
             ELSE IF ~_is_valid_word(w) THEN <<>>
             ELSE IF st /\ ~StrictMatch(w) THEN <<>>
             ELSE IF FirstSep(w) # ""
                  THEN SyllabifyParts(split(w, FirstSep(w)), st)
                  ELSE ParseSegment(w)

(***************************************************************************)
(* Normalizer (normalizer.py)                                              *)
(***************************************************************************)
\* QubeeAlphabet.DIACRITICS (alphabet.py): the acute vowels and their bases
DIACRITICS(c) ==
    CASE c = "U+00C1" -> "A"
      [] c = "U+00C9" -> "E"
      [] c = "U+00CD" -> "I"
      [] c = "U+00D3" -> "O"
      [] c = "U+00DA" -> "U"
      [] c = "U+00E1" -> "a"
      [] c = "U+00E9" -> "e"
      [] c = "U+00ED" -> "i"
      [] c = "U+00F3" -> "o"
      [] c = "U+00FA" -> "u"
      [] OTHER -> c

normalize_diacritics(t) == [k \in DOMAIN t |-> DIACRITICS(t[k])]

\* the combining marks (unicodedata.combining(c) # 0, category Mn)
CombiningMarks == {"U+0301", "U+0300"}

\* canonical decomposition of one character
Decompose(c) ==
    CASE c = "U+00E1" -> <<"a", "U+0301">>
      [] c = "U+00E9" -> <<"e", "U+0301">>
      [] c = "U+00ED" -> <<"i", "U+0301">>
      [] c = "U+00F3" -> <<"o", "U+0301">>
      [] c = "U+00FA" -> <<"u", "U+0301">>
      [] c = "U+00E0" -> <<"a", "U+0300">>
      [] c = "U+00C1" -> <<"A", "U+0301">>
      [] c = "U+00C9" -> <<"E", "U+0301">>
      [] c = "U+00CD" -> <<"I", "U+0301">>
      [] c = "U+00D3" -> <<"O", "U+0301">>
      [] c = "U+00DA" -> <<"U", "U+0301">>
      [] c = "U+00C0" -> <<"A", "U+0300">>
      [] OTHER -> <<c>>

\* the precomposed characters: those with a canonical decomposition
Precomposed ==
    {"U+00E1", "U+00E9", "U+00ED", "U+00F3", "U+00FA", "U+00E0",
     "U+00C1", "U+00C9", "U+00CD", "U+00D3", "U+00DA", "U+00C0"}

\* unicodedata.normalize("NFD", t)
RECURSIVE NFD(_)
NFD(t) == IF t = <<>> THEN <<>> ELSE Decompose(Head(t)) \o NFD(Tail(t))

\* canonical composition: a mark combines with the character before it when
\* that is a starter with which it has a precomposed form
RECURSIVE Compose(_, _)
Compose(out, rest) ==
    IF rest = <<>> THEN out
    ELSE LET c == Head(rest)
             pre == {p \in Precomposed :
                        out # <<>> /\ Decompose(p) = <<out[Len(out)], c>>}
         IN  IF pre # {}
             THEN Compose([out EXCEPT ![Len(out)] = CHOOSE p \in pre : TRUE],
                          Tail(rest))
             ELSE Compose(Append(out, c), Tail(rest))

\* unicodedata.normalize("NFC", t)
NFC(t) == Compose(<<>>, NFD(t))

\* _zero_width_re.sub(" ", t)
ZeroWidth == {"U+200B", "U+200C", "U+200D"}

ReplaceZeroWidth(t) == [k \in DOMAIN t |-> IF t[k] \in ZeroWidth THEN " " ELSE t[k]]

\* _punct_map (lines 36-44)
_punct_map(c) ==
    CASE c \in {"U+2019", "U+2018"} -> <<"'">>
      [] c \in {"U+201C", "U+201D"} -> <<"\"">>
      [] c \in {"U+2013", "U+2014"} -> <<"-">>
      [] c = "U+2026" -> <<".", ".", ".">>
      [] OTHER -> <<c>>

RECURSIVE StandardizePunctuation(_)
StandardizePunctuation(t) ==
    IF t = <<>> THEN <<>>
    ELSE _punct_map(Head(t)) \o StandardizePunctuation(Tail(t))

\* TextNormalizer._strip_diacritics (lines 99-102)
_strip_diacritics(t) == SelectSeq(NFD(t), LAMBDA c : c \notin CombiningMarks)

\* re.sub(r"\d+", "", t)
RemoveNumbers(t) == SelectSeq(t, LAMBDA c : c \notin Digits)

\* re.sub(r"[.,!?;:]", "", t)
RemovePunctuation(t) ==
    SelectSeq(t, LAMBDA c : c \notin {".", ",", "!", "?", ";", ":"})

\* \w of a str pattern: letters, digits and the underscore
Latin1Letters == Range(LowerLatin1) \cup Range(UpperLatin1)

IsWordChar(c) == c \in AsciiLetters \cup Latin1Letters \cup Digits \cup {"_"}

\* t.replace("-", " ") then re.sub(r"[^\w\s']", "", t)
RemoveSpecialChars(t) ==
    SelectSeq([k \in DOMAIN t |-> IF t[k] = "-" THEN " " ELSE t[k]],
              LAMBDA c : IsWordChar(c) \/ isspace(c) \/ c = "'")

\* str.upper()
Upper(t) == [k \in DOMAIN t |-> upper(t[k])]

\* _multi_space_re.sub(" ", t).strip()
RECURSIVE CollapseSpaces(_)
CollapseSpaces(t) ==
    IF t = <<>> THEN <<>>
    ELSE IF isspace(Head(t))
         THEN IF Len(t) > 1 /\ isspace(t[2])
              THEN CollapseSpaces(Tail(t))
              ELSE <<" ">> \o CollapseSpaces(Tail(t))
         ELSE <<Head(t)>> \o CollapseSpaces(Tail(t))

Strip(t) ==
    IF \A k \in DOMAIN t : isspace(t[k]) THEN <<>>
    ELSE LET first == CHOOSE k \in DOMAIN t :
                          ~isspace(t[k]) /\ \A j \in 1..(k - 1) : isspace(t[j])
             last == CHOOSE k \in DOMAIN t :
                          ~isspace(t[k]) /\ \A j \in (k + 1)..Len(t) : isspace(t[j])
         IN  SubSeq(t, first, last)

\* the configuration of a TextNormalizer (lines 15-33)
Configs ==
    [normalize_case : BOOLEAN, preserve_case : BOOLEAN,
     remove_diacritics : BOOLEAN, remove_numbers : BOOLEAN,
     remove_punctuation : BOOLEAN, remove_special_chars : BOOLEAN,
     standardize_punctuation : BOOLEAN, remove_extra_spaces : BOOLEAN]

NoConfig == [normalize_case |-> TRUE, preserve_case |-> FALSE,
             remove_diacritics |-> FALSE, remove_numbers |-> FALSE,
             remove_punctuation |-> FALSE, remove_special_chars |-> FALSE,
             standardize_punctuation |-> TRUE, remove_extra_spaces |-> TRUE]

\* TextNormalizer.normalize (lines 51-95), step by step
normalize(text, cfg) ==
    IF text = <<>> THEN <<>>
    ELSE LET t1 == NFC(text)
             t2 == ReplaceZeroWidth(t1)
             t3 == IF cfg.standardize_punctuation
                   THEN StandardizePunctuation(t2) ELSE t2
             t4 == normalize_diacritics(t3)
             t5 == IF cfg.remove_diacritics THEN _strip_diacritics(t4) ELSE t4
             t6 == IF cfg.remove_numbers THEN RemoveNumbers(t5) ELSE t5
             t7 == IF cfg.remove_punctuation THEN RemovePunctuation(t6) ELSE t6
             t8 == IF cfg.remove_special_chars THEN RemoveSpecialChars(t7) ELSE t7
             t9 == IF cfg.normalize_case /\ ~cfg.preserve_case
                   THEN Upper(t8) ELSE t8
         IN  IF cfg.remove_extra_spaces THEN Strip(CollapseSpaces(t9)) ELSE t9

(***************************************************************************)
(* Tokenizer (tokenizer.py)                                                *)
(***************************************************************************)
\* the outcome of a call: a returned value, a raised ValueError, or no call yet
Ok(v) == [status |-> "ok", value |-> v]

ValueError == [status |-> "ValueError", value |-> <<>>]

NotCalled == [status |-> "none", value |-> <<>>]

TokIdle ==
    /\ preserve_case = FALSE
    /\ tokens = NotCalled
    /\ positions = NotCalled
    /\ contexts = NotCalled
    /\ sentences = NotCalled
    /\ stemmed = <<>>

\* the letter class [A-Za-zÀ-ÖØ-öø-ÿ] of _word_pattern (line 16)
IsPatternLetter(c) == c \in AsciiLetters \cup Latin1Letters

Separators == {"'", "-"}

_abbreviations ==
    {<<"D","R",".">>, <<"P","R","O","F",".">>, <<"M","R",".">>,
     <<"M","R","S",".">>, <<"M","S",".">>}

\* QubeeTokenizer._strip_diacritics (lines 28-37)
QubeeTokenizer_strip_diacritics(t) ==
    SelectSeq(NFD(t),
              LAMBDA c : c \notin CombiningMarks
                         \/ c \in {"a","e","i","o","u","A","E","I","O","U"})

_normalize_token(token, pcase) ==
    IF pcase THEN QubeeTokenizer_strip_diacritics(token)
    ELSE Upper(QubeeTokenizer_strip_diacritics(token))

\* the faulty variant uses re.match: only a leading digit is seen
ValidateStrictTextLeadingOnly(text) == text # <<>> /\ text[1] \in Digits

\* _validate_strict_text raises (lines 46-48): re.search(r"\d", text)
_validate_strict_text(text) == \E k \in DOMAIN text : text[k] \in Digits

\* _validate_strict_token raises (lines 50-52)
_validate_strict_token(token) == \E k \in DOMAIN token : token[k] \in Digits

\* [letters]+ from index i: the index after the run
RECURSIVE LettersEnd(_, _)
LettersEnd(t, i) ==
    IF i < Len(t) /\ IsPatternLetter(At(t, i)) THEN LettersEnd(t, i + 1) ELSE i

\* the faulty variant lets a separator close the token: (?:['-][letters]*)*
RECURSIVE MatchEndTrailingSeparator(_, _)
MatchEndTrailingSeparator(t, i) ==
    IF i < Len(t) /\ At(t, i) \in Separators
    THEN MatchEndTrailingSeparator(t, LettersEnd(t, i + 1))
    ELSE i

\* (?:['-][letters]+)* from index i, greedy: the index after the last group
RECURSIVE MatchEnd(_, _)
MatchEnd(t, i) ==
    IF i + 1 < Len(t) /\ At(t, i) \in Separators /\ IsPatternLetter(At(t, i + 1))
    THEN MatchEnd(t, LettersEnd(t, i + 1))
    ELSE i

\* _word_pattern.finditer(text): the matches from index pos on, left to right
RECURSIVE finditer(_, _)
finditer(t, pos) ==
    IF \A k \in pos..(Len(t) - 1) : ~IsPatternLetter(At(t, k)) THEN <<>>
    ELSE LET s == CHOOSE k \in pos..(Len(t) - 1) :
                      /\ IsPatternLetter(At(t, k))
                      /\ \A j \in pos..(k - 1) : ~IsPatternLetter(At(t, j))
             e == MatchEnd(t, LettersEnd(t, s))
         IN  <<[start |-> s, end |-> e, group |-> Slice(t, s, e)]>>
                 \o finditer(t, e)

\* QubeeTokenizer.tokenize (lines 57-76)
tokenize(text, pcase, st) ==
    IF IsBlank(text) THEN Ok(<<>>)
    ELSE IF st /\ _validate_strict_text(text) THEN ValueError
    ELSE LET ms == finditer(text, 0)
         IN  IF st /\ ms = <<>> THEN ValueError
             ELSE IF st /\ \E k \in DOMAIN ms : _validate_strict_token(ms[k].group)
             THEN ValueError
             ELSE Ok([k \in DOMAIN ms |-> _normalize_token(ms[k].group, pcase)])

\* the faulty variant reports 1-based starts
PositionRecordOneBased(m, pcase) ==
    [token |-> _normalize_token(m.group, pcase),
     start |-> m.start + 1, end |-> m.end, length |-> m.end - (m.start + 1)]

\* the faulty variant stores the matched text without normalising it
PositionRecordRaw(m, pcase) ==
    [token |-> m.group,
     start |-> m.start, end |-> m.end, length |-> m.end - m.start]

\* the record appended at lines 89-94
PositionRecord(m, pcase) ==
    [token |-> _normalize_token(m.group, pcase),
     start |-> m.start, end |-> m.end, length |-> m.end - m.start]

\* QubeeTokenizer.tokenize_with_positions (lines 78-96)
tokenize_with_positions(text, pcase, st) ==
    IF st /\ _validate_strict_text(text) THEN ValueError
    ELSE LET ms == finditer(text, 0)
         IN  IF st /\ \E k \in DOMAIN ms : _validate_strict_token(ms[k].group)
             THEN ValueError
             ELSE Ok([k \in DOMAIN ms |-> PositionRecord(ms[k], pcase)])

Max(a, b) == IF a > b THEN a ELSE b

Min(a, b) == IF a < b THEN a ELSE b

\* QubeeTokenizer.tokenize_with_context (lines 98-104)
tokenize_with_context(text, context_chars, pcase, st) ==
    LET r == tokenize_with_positions(text, pcase, st)
    IN  IF r.status # "ok" THEN r
        ELSE Ok([k \in DOMAIN r.value |->
                   [token |-> r.value[k].token,
                    start |-> r.value[k].start,
                    end |-> r.value[k].end,
                    length |-> r.value[k].length,
                    left_context |->
                        Slice(text, Max(0, r.value[k].start - context_chars),
                              r.value[k].start),
                    right_context |->
                        Slice(text, r.value[k].end,
                              Min(Len(text), r.value[k].end + context_chars))]])

\* str.replace(old, new): every non-overlapping occurrence, left to right
RECURSIVE Replace(_, _, _)
Replace(t, old, new) ==
    IF Len(t) < Len(old) THEN t
    ELSE IF SubSeq(t, 1, Len(old)) = old
         THEN new \o Replace(SubSeq(t, Len(old) + 1, Len(t)), old, new)
         ELSE <<Head(t)>> \o Replace(Tail(t), old, new)

DOT == <<"<", "D", "O", "T", ">">>

\* the loop of lines 122-126 over the abbreviations still to protect
RECURSIVE Protect(_, _, _)
Protect(t, abbrs, pcase) ==
    IF abbrs = {} THEN t
    ELSE LET abbr == CHOOSE a \in abbrs : TRUE
         IN  Protect(Replace(t, IF pcase THEN abbr ELSE Upper(abbr),
                             Replace(abbr, <<".">>, DOT)),
                     abbrs \ {abbr}, pcase)

\* \s+ from index i: the index after the run
RECURSIVE SpacesEnd(_, _)
SpacesEnd(t, i) ==
    IF i < Len(t) /\ isspace(At(t, i)) THEN SpacesEnd(t, i + 1) ELSE i

\* re.split(r"(?<=[.!?])\s+", t): from is where the current part starts
RECURSIVE ReSplit(_, _, _)
ReSplit(t, from, i) ==
    IF i >= Len(t) THEN <<Slice(t, from, Len(t))>>
    ELSE IF i > 0 /\ At(t, i - 1) \in {".", "!", "?"} /\ isspace(At(t, i))
         THEN <<Slice(t, from, i)>>
                  \o ReSplit(t, SpacesEnd(t, i), SpacesEnd(t, i))
         ELSE ReSplit(t, from, i + 1)

\* the loop of lines 130-134
RECURSIVE CollectSentences(_)
CollectSentences(parts) ==
    IF parts = <<>> THEN <<>>
    ELSE LET p == Strip(Replace(Head(parts), DOT, <<".">>))
         IN  (IF p # <<>> THEN <<p>> ELSE <<>>) \o CollectSentences(Tail(parts))

\* QubeeTokenizer.sentence_tokenize (lines 109-136)
sentence_tokenize(text, pcase, st) ==
    IF IsBlank(text) THEN Ok(<<>>)
    ELSE IF st /\ _validate_strict_text(text) THEN ValueError
    ELSE LET stripped == QubeeTokenizer_strip_diacritics(text)
             processed == IF pcase THEN stripped ELSE Upper(stripped)
             protected == Protect(processed, _abbreviations, pcase)
         IN  Ok(CollectSentences(ReSplit(protected, 0, 0)))

(***************************************************************************)
(* Stemmer (stemmer.py)                                                    *)
(***************************************************************************)
\* self.suffixes (lines 16-29), in the order of the source
suffixes ==
    <<[suffix |-> <<"K","E","E","S","S","A","T","T","I">>, replacement |-> <<>>],
      [suffix |-> <<"K","O","O","T","T","I">>, replacement |-> <<>>],
      [suffix |-> <<"K","O","O","T","A">>, replacement |-> <<>>],
      [suffix |-> <<"T","O","O","T","A">>, replacement |-> <<>>],
      [suffix |-> <<"O","O","T","A">>, replacement |-> <<>>],
      [suffix |-> <<"O","T","A">>, replacement |-> <<>>],
      [suffix |-> <<"N","E","E","N","I">>, replacement |-> <<>>],
      [suffix |-> <<"E","T","T","I">>, replacement |-> <<>>],
      [suffix |-> <<"A","N","I">>, replacement |-> <<>>],
      [suffix |-> <<"A","N","I","I">>, replacement |-> <<>>],
      [suffix |-> <<"A","C","H","U","U">>, replacement |-> <<>>],
      [suffix |-> <<"I","T","A","N">>, replacement |-> <<>>],
      [suffix |-> <<"A","T","A","N">>, replacement |-> <<>>],
      [suffix |-> <<"W","W","A","N">>, replacement |-> <<>>],
      [suffix |-> <<"U","U">>, replacement |-> <<>>],
      [suffix |-> <<"I","C","H","A">>, replacement |-> <<>>],
      [suffix |-> <<"I","C","H","A","A">>, replacement |-> <<>>],
      [suffix |-> <<"D","H","A">>, replacement |-> <<>>],
      [suffix |-> <<"T","A">>, replacement |-> <<>>],
      [suffix |-> <<"K","E","E">>, replacement |-> <<>>],
      [suffix |-> <<"S","A">>, replacement |-> <<>>],
      [suffix |-> <<"S","A","A">>, replacement |-> <<>>],
      [suffix |-> <<"T","I","I","N">>, replacement |-> <<>>],
      [suffix |-> <<"T","T","I">>, replacement |-> <<>>],
      [suffix |-> <<"T","I","I">>, replacement |-> <<>>],
      [suffix |-> <<"U","M","M","A","A">>, replacement |-> <<>>],
      [suffix |-> <<"I","N","A">>, replacement |-> <<>>],
      [suffix |-> <<"A","A">>, replacement |-> <<>>],
      [suffix |-> <<"O","O">>, replacement |-> <<>>],
      [suffix |-> <<"I">>, replacement |-> <<>>]>>

\* self.irregular_forms (lines 32-43) as (form, root) pairs
irregular_forms ==
    {<<<<"D","H","U","F","A","N">>, <<"D","H","U","F">>>>,
     <<<<"D","H","A","Q","A","N">>, <<"D","H","A","Q">>>>,
     <<<<"B","E","E","K","A","N">>, <<"B","E","E","K">>>>,
     <<<<"J","E","D","H","A","N">>, <<"J","E","D","H">>>>,
     <<<<"Q","A","B","A","N">>, <<"Q","A","B">>>>,
     <<<<"A","R","G","A","T","A","N">>, <<"A","R","G","A","T">>>>,
     <<<<"B","A","R","A","T","A","N">>, <<"B","A","R","A","T">>>>,
     <<<<"D","H","I","I","S","A","N">>, <<"D","H","I","I","S">>>>,
     <<<<"F","I","D","A","N">>, <<"F","I","D">>>>,
     <<<<"K","E","N","N","A","N">>, <<"K","E","N","N">>>>}

IrregularKeys == {p[1] : p \in irregular_forms}

IrregularRoot(w) == (CHOOSE p \in irregular_forms : p[1] = w)[2]

\* str.endswith
EndsWith(w, suffix) ==
    /\ Len(suffix) <= Len(w)
    /\ SubSeq(w, Len(w) - Len(suffix) + 1, Len(w)) = suffix

\* the faulty variant sorts with key=len: shortest suffix first
RECURSIVE SortedAscending(_, _)
SortedAscending(list, n) ==
    IF n = 0 THEN <<>>
    ELSE SortedAscending(list, n - 1)
             \o SelectSeq(list, LAMBDA x : Len(x.suffix) = n)

LongestSuffixLen(list) ==
    CHOOSE n \in 0..20 :
        /\ \A k \in DOMAIN list : Len(list[k].suffix) <= n
        /\ n = 0 \/ \E k \in DOMAIN list : Len(list[k].suffix) = n

\* sorted(list, key=lambda x: -len(x[0])) (line 61): a stable sort, longest
\* suffix first; n is the longest length still to place
RECURSIVE SortedByLength(_, _)
SortedByLength(list, n) ==
    IF n = 0 THEN <<>>
    ELSE SelectSeq(list, LAMBDA x : Len(x.suffix) = n)
             \o SortedByLength(list, n - 1)

\* the list the loop of line 61 runs over
SortedSuffixes == SortedByLength(suffixes, LongestSuffixLen(suffixes))

\* the loop of lines 61-64: the word after the first applicable suffix
RECURSIVE StripFirstMatch(_, _)
StripFirstMatch(w, list) ==
    IF list = <<>> THEN w
    ELSE IF EndsWith(w, Head(list).suffix) /\ Len(w) > Len(Head(list).suffix)
         THEN SubSeq(w, 1, Len(w) - Len(Head(list).suffix))
                  \o Head(list).replacement
         ELSE StripFirstMatch(w, Tail(list))

\* the faulty variant looks the word up as written, before case and
\* diacritics are folded
StemLookupUnfolded(w0) ==
    LET w == normalize_diacritics(Upper(w0))
    IN  IF w0 \in IrregularKeys THEN IrregularRoot(w0)
        ELSE LET stripped == StripFirstMatch(w, SortedSuffixes)
             IN  IF Len(stripped) < 2 THEN w ELSE stripped

\* the faulty variant guards against an empty stem only
StemGuardEmpty(w0) ==
    LET w == normalize_diacritics(Upper(w0))
    IN  IF w \in IrregularKeys THEN IrregularRoot(w)
        ELSE LET stripped == StripFirstMatch(w, SortedSuffixes)
             IN  IF Len(stripped) < 1 THEN w ELSE stripped

\* QubeeStemmer.stem (lines 53-69)
stem(w0) ==
    LET w == normalize_diacritics(Upper(w0))
    IN  IF w \in IrregularKeys THEN IrregularRoot(w)
        ELSE LET stripped == StripFirstMatch(w, SortedSuffixes)
             IN  IF Len(stripped) < 2 THEN w ELSE stripped

(***************************************************************************)
(* Stop-word filter (stopwords.py)                                         *)
(***************************************************************************)
\* StopWords._load_default_stopwords (lines 59-78)
_load_default_stopwords ==
    {<<"W","A","A">>, <<"W","A","A","E","E">>, <<"W","A","A","E","E","N">>,
     <<"A","N","I">>, <<"A","T","E">>, <<"I","S","A">>, <<"I","S","I">>,
     <<"I","S","A","N">>, <<"F","I">>, <<"Y","O","O">>,
     <<"S","I","L","A","A">>, <<"E","R","G","A","S","I","I">>,
     <<"I","R","R","A">>, <<"K","E","E","S","S","A","A">>,
     <<"G","A","D","I","I">>, <<"T","A","A">>, <<"D","H","A">>,
     <<"J","I","R","A">>, <<"A","M","M","A">>, <<"A","M","M","A","A">>,
     <<"S","A","N","A">>, <<"E","E","N","Y","U","U">>, <<"M","A","A","L">>,
     <<"E","E","S","S","A","A">>, <<"K","U","N">>, <<"S","U","N">>,
     <<"K","A","N","A">>, <<"H","A","A">>, <<"T","A","Y">>, <<"N","U">>,
     <<"N","U","U">>}

\* self.categories (lines 21-51), category name to word set
categories ==
    [pronouns |->
        {<<"A","N","I">>, <<"A","T","E">>, <<"I","S","A","N">>,
         <<"I","S","A">>, <<"I","S","I">>, <<"I","S","I","I">>, <<"N","U">>,
         <<"N","U","U">>, <<"I","S","I","N">>, <<"K","E","E","N","Y","A">>,
         <<"K","E","E","N","Y","A","A">>, <<"K","E","E">>,
         <<"K","I","Y","Y","A">>, <<"S","A","N","I">>, <<"S","A","N">>},
     conjunctions |->
        {<<"F","I">>, <<"Y","O","O">>, <<"S","I","L","A","A">>,
         <<"Y","E","R","O","O">>, <<"E","R","G","A","S","I","I">>,
         <<"H","A","A">>, <<"T","A","Y">>, <<"A","K","K","A","S">>,
         <<"A","K","K","A","N","A">>},
     prepositions |->
        {<<"I","R","R","A">>, <<"I","R","R","A","A">>,
         <<"I","R","R","A","A","N">>, <<"I","R","R","A","A","T","T","I">>,
         <<"K","E","E","S","S","A","A">>,
         <<"K","E","E","S","S","A","T","T","I">>, <<"G","A","D","I","I">>,
         <<"G","A","D","I">>, <<"W","A","A","J","I","N">>,
         <<"F","A","A","N","A","A">>},
     auxiliary_verbs |->
        {<<"T","A","A">>, <<"T","A","U","U">>, <<"D","H","A">>,
         <<"D","H","A","U","U">>, <<"J","I","R","A">>,
         <<"J","I","R","U","U">>},
     demonstratives |->
        {<<"K","U","N">>, <<"S","U","N">>, <<"K","A","N","A">>,
         <<"S","A","N","A">>, <<"A","K","K","A","N","A">>,
         <<"A","K","K","A","S">>},
     question_words |->
        {<<"E","E","N","Y","U","U">>, <<"M","A","A","L">>,
         <<"E","E","S","S","A","A">>, <<"Y","O","O">>},
     adverbs |->
        {<<"A","M","M","A">>, <<"A","M","M","A","A">>,
         <<"A","C","H","I","I">>, <<"A","S","I">>,
         <<"D","H","U","G","A","A">>,
         <<"D","H","U","G","A","A","T","T","I">>}]

\* StopWords.__init__ (lines 18-55): the set of a new instance
NewStopWords(include_common) ==
    IF include_common
    THEN _load_default_stopwords
             \cup UNION {categories[c] : c \in DOMAIN categories}
    ELSE _load_default_stopwords

\* the suffix tuple of _get_variants (line 106)
VariantSuffixes ==
    <<<<"T","I">>, <<"T","I","I">>, <<"N">>, <<"N","I">>,
      <<"F">>, <<"F","I">>, <<"S">>, <<"S","I">>>>

\* StopWords._get_variants (lines 103-118): the candidate base forms, in the
\* order the code appends them
_get_variants(w) ==
    LET cut(n) == SubSeq(w, 1, Len(w) - n)
        RECURSIVE BySuffix(_)
        BySuffix(k) ==
            IF k > Len(VariantSuffixes) THEN <<>>
            ELSE (IF EndsWith(w, VariantSuffixes[k])
                        /\ Len(w) > Len(VariantSuffixes[k])
                  THEN <<cut(Len(VariantSuffixes[k]))>> ELSE <<>>)
                     \o BySuffix(k + 1)
    IN  BySuffix(1)
            \o (IF EndsWith(w, <<"K","E","E">>) THEN <<cut(3)>> ELSE <<>>)
            \o (IF EndsWith(w, <<"S","A","A">>) THEN <<cut(3)>> ELSE <<>>)
            \o (IF EndsWith(w, <<"S","A">>) THEN <<cut(2)>> ELSE <<>>)

\* StopWords.is_stopword (lines 82-101) of an instance whose set is sw
is_stopword(w0, cv, sw) ==
    IF w0 = <<>> THEN FALSE
    ELSE LET w == Upper(w0)
         IN  \/ w \in sw
             \/ cv /\ \E k \in DOMAIN _get_variants(w) :
                          _get_variants(w)[k] \in sw

\* the faulty variant tests every token for an exact match only
RECURSIVE RemoveStopwordsExactOnly(_, _, _)
RemoveStopwordsExactOnly(ws, cv, sw) ==
    IF ws = <<>> THEN <<>>
    ELSE (IF ~is_stopword(Head(ws), FALSE, sw) THEN <<Head(ws)>> ELSE <<>>)
             \o RemoveStopwordsExactOnly(Tail(ws), cv, sw)

\* StopWords.remove_stopwords (lines 120-121): the list comprehension
RECURSIVE remove_stopwords(_, _, _)
remove_stopwords(ws, cv, sw) ==
    IF ws = <<>> THEN <<>>
    ELSE (IF ~is_stopword(Head(ws), cv, sw) THEN <<Head(ws)>> ELSE <<>>)
             \o remove_stopwords(Tail(ws), cv, sw)

\* StopWords.add_stopwords (lines 134-136)
add_stopwords(ws, sw) == sw \cup {Upper(ws[k]) : k \in DOMAIN ws}

\* the faulty variant discards the words as they are spelled
RemoveStopwordsSetAsSpelled(ws, sw) == sw \ ws

\* StopWords.remove_stopwords_set (lines 138-140)
remove_stopwords_set(ws, sw) == sw \ {Upper(w) : w \in ws}

(***************************************************************************)
(* POS tagger (pos/tagger.py, pos/tagsets.py)                              *)
(***************************************************************************)
\* POS_TAGSET (tagsets.py lines 26-109): each tag with its universal tag
POS_TAGSET ==
    {<<"NN", "NOUN">>, <<"NNC", "NOUN">>, <<"NNM", "NOUN">>,
     <<"NPROP", "NOUN">>, <<"NPL", "NOUN">>, <<"PPER", "PRON">>,
     <<"PDEM", "PRON">>, <<"PINT", "PRON">>, <<"PREL", "PRON">>,
     <<"POSS", "PRON">>, <<"PREFL", "PRON">>, <<"VB", "VERB">>,
     <<"VBF", "VERB">>, <<"VBINF", "VERB">>, <<"VBIMP", "VERB">>,
     <<"VBPART", "VERB">>, <<"VBCAUS", "VERB">>, <<"VBPASS", "VERB">>,
     <<"VBREFL", "VERB">>, <<"VBAUX", "VERB">>, <<"JJ", "ADJ">>,
     <<"JJC", "ADJ">>, <<"JJS", "ADJ">>, <<"JJNUM", "ADJ">>,
     <<"JJPOSS", "ADJ">>, <<"RB", "ADV">>, <<"RBC", "ADV">>,
     <<"RBS", "ADV">>, <<"RBINT", "ADV">>, <<"RBNEG", "ADV">>,
     <<"DT", "DET">>, <<"DTDEM", "DET">>, <<"DTINT", "DET">>,
     <<"DTPOSS", "DET">>, <<"DTIND", "DET">>, <<"IN", "ADP">>,
     <<"POST", "ADP">>, <<"CC", "CONJ">>, <<"CS", "CONJ">>, <<"RP", "PRT">>,
     <<"NEG", "PRT">>, <<"FOC", "PRT">>, <<"Q", "PRT">>, <<"UH", "INTJ">>,
     <<"CD", "NUM">>, <<"OD", "NUM">>, <<"FW", "X">>, <<"SYM", "X">>,
     <<"LS", "X">>, <<".", "PUNC">>, <<",", "PUNC">>, <<":", "PUNC">>,
     <<";", "PUNC">>, <<"``", "PUNC">>, <<"''", "PUNC">>, <<"(", "PUNC">>,
     <<")", "PUNC">>}

\* map_to_universal (tagsets.py lines 143-145) over get_universal_tag
\* (lines 138-140): the universal tag of a known tag, X otherwise
map_to_universal(tag) ==
    IF \E p \in POS_TAGSET : p[1] = tag
    THEN (CHOOSE p \in POS_TAGSET : p[1] = tag)[2]
    ELSE "X"

\* VERB_SUFFIXES (tagsets.py lines 112-121), in insertion order
VERB_SUFFIXES ==
    <<<<<<"u","u">>, "VBINF">>, <<<<"a","a">>, "VBF">>,
      <<<<"e","e">>, "VBF">>, <<<<"i">>, "VBIMP">>, <<<<"u">>, "VBPART">>,
      <<<<"s","i">>, "VBCAUS">>, <<<<"a","m">>, "VBPASS">>,
      <<<<"a","t">>, "VBREFL">>>>

\* NOUN_SUFFIXES (tagsets.py lines 124-130), in insertion order
NOUN_SUFFIXES ==
    <<<<<<"i","i">>, "NPL">>, <<<<"w","w">>, "NPL">>, <<<<"a","a">>, "NN">>,
      <<<<"o","o">>, "NN">>, <<<<"u","u">>, "NN">>>>

\* LEXICON (tagger.py lines 11-23): word and tag
LEXICON ==
    {<<<<"g","u","d","d","a","a">>, "ADJ">>,
     <<<<"x","i","x","i","q","q","o","o">>, "ADJ">>,
     <<<<"w","a","a","'","e","e">>, "NOUN">>,
     <<<<"a","f","a","a","n">>, "NOUN">>,
     <<<<"b","i","y","y","a">>, "NOUN">>, <<<<"a","n","i">>, "PRON">>,
     <<<<"i","s","i","n">>, "PRON">>}

\* PREPOSITIONS (tagger.py lines 26-28)
PREPOSITIONS ==
    {<<"f","i">>, <<"y","o","o","k","i","i","n">>, <<"g","a","r","a">>,
     <<"j","a","l","a","t","t","i">>, <<"b","i","r","a">>,
     <<"k","e","e","s","s","a">>, <<"a","l","a","a">>,
     <<"w","a","j","j","i","n">>, <<"m","a","l","e","e">>,
     <<"w","a","a","'","e","e">>}

\* afaan_oromoo_numbers (tagger.py lines 53-56)
afaan_oromoo_numbers ==
    {<<"t","o","k","k","o">>, <<"l","a","m","a">>, <<"s","a","d","i">>,
     <<"a","f","u","r">>, <<"s","h","a","n">>, <<"j","a","h","a","a">>,
     <<"t","o","r","b","a">>, <<"s","a","d","d","e","e","t">>,
     <<"s","a","g","a","l">>, <<"k","u","d","h","a">>}

\* string.punctuation.replace("'", "") (tagger.py line 61); the double
\* quote, the backslash and the backtick are named by their code points
PunctuationNoApostrophe ==
    {"!", "U+0022", "#", "$", "%", "&", "(", ")", "*", "+", ",", "-", ".", "/",
     ":", ";", "<", "=", ">", "?", "@", "[", "U+005C", "]", "^", "_", "U+0060", "{",
     "|", "}", "~"}

\* str.lower() of a text
Lower(t) == [k \in DOMAIN t |-> lower(t[k])]

\* re.fullmatch(r"\d+(\.\d+)?", t) (tagger.py line 57)
IsDecimalNumber(t) ==
    LET digits(a, b) == a <= b /\ \A k \in a..b : t[k] \in Digits
    IN  \/ digits(1, Len(t))
        \/ \E d \in DOMAIN t :
               t[d] = "." /\ digits(1, d - 1) /\ digits(d + 1, Len(t))

\* the tag of the first suffix of the table, in its order, that the token
\* ends with (the loops of lines 73-75 and 78-80); "" when there is none
RECURSIVE SuffixTag(_, _)
SuffixTag(t, table) ==
    IF table = <<>> THEN ""
    ELSE IF EndsWith(t, Head(table)[1]) THEN map_to_universal(Head(table)[2])
         ELSE SuffixTag(t, Tail(table))

\* the orthographic fallback and the catch-all (tagger.py lines 83-92)
OrthographicTag(t) ==
    IF _is_valid_word(t)
    THEN IF (\E k \in DOMAIN t : t[k] \in Separators) THEN "NOUN"
         ELSE IF \E e \in {<<"a","a">>, <<"o","o">>, <<"u","u">>} :
                     EndsWith(t, e)
              THEN "ADJ"
              ELSE "UNK"
    ELSE "X"

\* the faulty variant tests the preposition list before the lexicon
TagTokenAdpositionFirst(token) ==
    LET t == Strip(token)
        t_lower == Lower(t)
    IN  IF t = <<>> THEN "UNK"
        ELSE IF t_lower \in PREPOSITIONS THEN "ADP"
        ELSE IF \E p \in LEXICON : p[1] = t_lower
             THEN (CHOOSE p \in LEXICON : p[1] = t_lower)[2]
        ELSE IF t_lower \in afaan_oromoo_numbers \/ IsDecimalNumber(t_lower)
             THEN "NUM"
        ELSE IF \A k \in DOMAIN t_lower :
                    t_lower[k] \in PunctuationNoApostrophe
             THEN "PUNC"
        ELSE IF t_lower \in {<<"f","i">>, <<"y","o","o","k","i","i","n">>}
             THEN "CONJ"
        ELSE IF SuffixTag(t_lower, VERB_SUFFIXES) # ""
             THEN SuffixTag(t_lower, VERB_SUFFIXES)
        ELSE IF SuffixTag(t_lower, NOUN_SUFFIXES) # ""
             THEN SuffixTag(t_lower, NOUN_SUFFIXES)
        ELSE OrthographicTag(t_lower)

\* QubeePOSTagger._tag_token (tagger.py lines 41-92)
_tag_token(token) ==
    LET t == Strip(token)
        t_lower == Lower(t)
    IN  IF t = <<>> THEN "UNK"
        ELSE IF \E p \in LEXICON : p[1] = t_lower
             THEN (CHOOSE p \in LEXICON : p[1] = t_lower)[2]
        ELSE IF t_lower \in afaan_oromoo_numbers \/ IsDecimalNumber(t_lower)
             THEN "NUM"
        ELSE IF \A k \in DOMAIN t_lower :
                    t_lower[k] \in PunctuationNoApostrophe
             THEN "PUNC"
        ELSE IF t_lower \in PREPOSITIONS THEN "ADP"
        ELSE IF t_lower \in {<<"f","i">>, <<"y","o","o","k","i","i","n">>}
             THEN "CONJ"
        ELSE IF SuffixTag(t_lower, VERB_SUFFIXES) # ""
             THEN SuffixTag(t_lower, VERB_SUFFIXES)
        ELSE IF SuffixTag(t_lower, NOUN_SUFFIXES) # ""
             THEN SuffixTag(t_lower, NOUN_SUFFIXES)
        ELSE OrthographicTag(t_lower)

\* the faulty variant tags the tokens that are not blank only
RECURSIVE TagSkippingBlank(_)
TagSkippingBlank(ts) ==
    IF ts = <<>> THEN <<>>
    ELSE (IF Strip(Head(ts)) = <<>> THEN <<>> ELSE <<_tag_token(Head(ts))>>)
             \o TagSkippingBlank(Tail(ts))

\* QubeePOSTagger.tag (tagger.py lines 36-39)
RECURSIVE tag(_)
tag(ts) ==
    IF ts = <<>> THEN <<>>
    ELSE <<_tag_token(Head(ts))>> \o tag(Tail(ts))

(***************************************************************************)
(* Character validation (alphabet.py) and utils/validation.py              *)
(***************************************************************************)
\* QubeeAlphabet.LETTERS (alphabet.py line 20)
LETTERS == CONSONANTS \cup VOWELS

\* QubeeAlphabet.SPECIAL_CHARS (alphabet.py line 22)
SPECIAL_CHARS == {"'", "-"}

\* the keys of QubeeAlphabet.DIACRITICS (alphabet.py lines 24-27)
DiacriticKeys ==
    {"U+00C1", "U+00C9", "U+00CD", "U+00D3", "U+00DA",
     "U+00E1", "U+00E9", "U+00ED", "U+00F3", "U+00FA"}

\* QubeeAlphabet.VALID_CHARS (alphabet.py lines 29-34); the double quote is
\* named by its code point
VALID_CHARS ==
    LETTERS \cup {lower(c) : c \in LETTERS} \cup SPECIAL_CHARS
        \cup DiacriticKeys
        \cup {" ", "\n", "\t", ".", "!", "?", ",", ";", ":", "(", ")", "[",
              "]", "U+0022"}

\* QubeeAlphabet.is_qubee_letter (alphabet.py lines 55-61)
is_qubee_letter(c) == c \in DiacriticKeys \/ upper(c) \in LETTERS

\* the faulty variant appends a rejected character at every occurrence
RECURSIVE ValidateWithRepeats(_, _)
ValidateWithRepeats(text, st) ==
    IF text = <<>> THEN [is_valid |-> TRUE, invalid_chars |-> <<>>]
    ELSE LET char == text[Len(text)]
             before == ValidateWithRepeats(SubSeq(text, 1, Len(text) - 1), st)
             rejected ==
                 /\ ~isspace(char)
                 /\ IF st
                    THEN /\ char \notin SPECIAL_CHARS
                         /\ char \notin DiacriticKeys
                         /\ upper(char) \notin LETTERS
                    ELSE char \notin VALID_CHARS
             invalid == IF rejected
                        THEN Append(before.invalid_chars, char)
                        ELSE before.invalid_chars
         IN  [is_valid |-> Len(invalid) = 0, invalid_chars |-> invalid]

\* validate_qubee_text (alphabet.py lines 92-109): the pair it returns after
\* the loop over the characters, the last character handled last
RECURSIVE validate_qubee_text(_, _)
validate_qubee_text(text, st) ==
    IF text = <<>> THEN [is_valid |-> TRUE, invalid_chars |-> <<>>]
    ELSE LET char == text[Len(text)]
             before == validate_qubee_text(SubSeq(text, 1, Len(text) - 1), st)
             rejected ==
                 /\ ~isspace(char)
                 /\ IF st
                    THEN /\ char \notin SPECIAL_CHARS
                         /\ char \notin DiacriticKeys
                         /\ upper(char) \notin LETTERS
                    ELSE char \notin VALID_CHARS
             invalid == IF rejected /\ char \notin Range(before.invalid_chars)
                        THEN Append(before.invalid_chars, char)
                        ELSE before.invalid_chars
         IN  [is_valid |-> Len(invalid) = 0, invalid_chars |-> invalid]

\* the attributes of the class QubeeAlphabet (alphabet.py lines 10-88);
\* validate_qubee_text (line 92) is a function of the module, not of the class
QubeeAlphabetAttributes ==
    {"CONSONANTS", "VOWELS", "LETTERS", "SPECIAL_CHARS", "DIACRITICS",
     "VALID_CHARS", "DIGRAPHS", "DIPHTHONGS", "CONSONANT_CLUSTERS",
     "is_consonant", "is_vowel", "is_qubee_letter", "is_digraph",
     "normalize_diacritics", "get_all_letters", "normalize_qubee"}

\* the functions defined in utils/validation.py; _check_phonotactic_rules,
\* called at line 54, is not among them
ValidationFunctions ==
    {"validate_text", "validate_word", "check_phonotactics",
     "is_valid_syllable", "calculate_text_metrics",
     "_is_valid_afaan_oromoo_word", "_check_vowel_harmony",
     "_check_consonant_clusters", "_check_invalid_sequences"}

AttributeError == [status |-> "AttributeError", value |-> <<>>]

NameError == [status |-> "NameError", value |-> <<>>]

\* validate_text (validation.py lines 11-61): the exception it raises, or
\* the is_valid and invalid_characters entries of the dictionary it returns
\* (the warnings and statistics entries are not part of the model)
validate_text(text, level) ==
    IF "validate_qubee_text" \notin QubeeAlphabetAttributes
    THEN AttributeError
    ELSE IF level = "full"
             /\ "_check_phonotactic_rules" \notin ValidationFunctions
    THEN NameError
    ELSE LET v == validate_qubee_text(text, level = "strict")
         IN  Ok([is_valid |-> v.is_valid,
                 invalid_characters |-> v.invalid_chars])

\* _check_vowel_harmony (validation.py lines 254-281): whether it reports
MixesVowels(w) ==
    LET vowels == {upper(w[k]) : k \in {j \in DOMAIN w : is_vowel(w[j])}}
    IN  /\ vowels \cap {"E", "I"} # {}
        /\ vowels \cap {"A", "O", "U"} # {}
        /\ Lower(w) \notin {<<"a","k","k","a","s">>,
                            <<"a","k","k","a","n","a">>, <<"a","m","m","a">>}

\* _check_consonant_clusters (validation.py lines 284-313): the clusters it
\* reports, the initial pair first
ClusterIssues(w) ==
    LET u == Upper(w)
        medial == SelectSeq([k \in 1..Len(u) |-> k - 1],
                      LAMBDA i : /\ 1 <= i
                                 /\ i < Len(u) - 2
                                 /\ is_consonant(At(u, i))
                                 /\ is_consonant(At(u, i + 1))
                                 /\ is_consonant(At(u, i + 2)))
    IN  (IF /\ Len(u) >= 2
            /\ is_consonant(At(u, 0))
            /\ is_consonant(At(u, 1))
            /\ Slice(u, 0, 2) \notin
                   {<<"B","R">>, <<"D","R">>, <<"F","R">>, <<"G","R">>,
                    <<"K","R">>, <<"P","R">>, <<"T","R">>, <<"S","R">>}
         THEN <<Slice(u, 0, 2)>> ELSE <<>>)
            \o [k \in DOMAIN medial |-> Slice(u, medial[k], medial[k] + 3)]

\* _check_invalid_sequences (validation.py lines 316-347): the sequences of
\* its list found in the word
InvalidSequences(w) ==
    {<<a, b>> : a \in {"B","D","G","H","J","K","L","P","Q","T","V","X","Z"},
                b \in {"M","N","P","V"}}
        \cap {SubSeq(Upper(w), k, k + 1) : k \in 1..(Len(w) - 1)}

\* validate_word (validation.py lines 64-111): the exception it raises, or
\* the pair (is_valid, issues) with the issues by kind
validate_word(w, check_vowels, check_consonants) ==
    IF "validate_qubee_text" \notin QubeeAlphabetAttributes
    THEN AttributeError
    ELSE LET v == validate_qubee_text(w, TRUE)
             issues ==
                 (IF check_vowels /\ MixesVowels(w)
                  THEN <<"vowel harmony">> ELSE <<>>)
                 \o (IF check_consonants
                     THEN [k \in DOMAIN ClusterIssues(w) |-> "cluster"]
                     ELSE <<>>)
                 \o (IF InvalidSequences(w) # {}
                     THEN <<"invalid sequence">> ELSE <<>>)
         IN  IF ~v.is_valid THEN Ok(<<FALSE, <<"invalid characters">>>>)
             ELSE IF Len(w) < 1 THEN Ok(<<FALSE, <<"empty">>>>)
             ELSE IF \A k \in DOMAIN w : ~is_vowel(w[k])
                  THEN Ok(<<FALSE, <<"no vowels">>>>)
             ELSE Ok(<<Len(issues) = 0, issues>>)

(***************************************************************************)
(* Syllable splitting of alphabet.py                                       *)
(***************************************************************************)
\* line 161: the locals when the loop is entered
SplitEnter(w0) ==
    [word |-> [k \in DOMAIN Strip(w0) |-> upper(DIACRITICS(Strip(w0)[k]))],
     i |-> 0,
     syllables |-> <<>>]

\* one iteration of the while loop (lines 167-191)
SplitIteration(st) ==
    LET w == st.word
        n == Len(w)
        i0 == st.i
        i1 == IF is_consonant(At(w, i0))
              THEN IF i0 + 1 < n /\ Slice(w, i0, i0 + 2) \in DIGRAPHS
                   THEN i0 + 2
                   ELSE i0 + 1
              ELSE i0
        i2 == IF i1 < n /\ is_vowel(At(w, i1))
              THEN IF i1 + 1 < n /\ Slice(w, i1, i1 + 2) \in DIPHTHONGS
                   THEN i1 + 2
                   ELSE i1 + 1
              ELSE i1
        syllable == Slice(w, i0, i2)
    IN  [word |-> w,
         i |-> i2,
         syllables |->
            IF /\ syllable # <<>>
               /\ \A k \in DOMAIN syllable : is_consonant(syllable[k])
               /\ st.syllables # <<>>
            THEN [st.syllables EXCEPT ![Len(st.syllables)] = @ \o syllable]
            ELSE IF syllable # <<>> THEN Append(st.syllables, syllable)
            ELSE st.syllables]

\* the while loop (line 166), run to its end
RECURSIVE SplitLoop(_)
SplitLoop(st) ==
    IF st.i < Len(st.word) THEN SplitLoop(SplitIteration(st)) ELSE st

\* not word or word.strip() == ''
SplitReturnsEarly(w0) == w0 = <<>> \/ Strip(w0) = <<>>

split_into_syllables(w0) ==
    IF SplitReturnsEarly(w0) THEN <<>>
    ELSE SplitLoop(SplitEnter(w0)).syllables

(***************************************************************************)
(* Syllabifier: the caller types a word, syllabifies it, and syllabifies   *)
(* the concatenation of the result.                                        *)
(***************************************************************************)
SylAlphabet ==
    {"a", "b", "s", "h", "U+00C9", "U+00F8", "U+20AC", "'", "-", "1", " "}

SylInit ==
    /\ pc = "input"
    /\ word = <<>>
    /\ strict \in BOOLEAN
    /\ syllables = <<>>
    /\ again = <<>>
    /\ config = NoConfig
    /\ normalized = <<>>
    /\ renormalized = <<>>
    /\ RestIdle
    /\ TokIdle
    /\ stemmed = <<>>

SylType ==
    /\ pc = "input"
    /\ Len(word) < MaxWordLen
    /\ \E c \in SylAlphabet : word' = Append(word, c)
    /\ UNCHANGED <<pc, strict, sylVars, normVars, tokVars, stemmed, restVars>>

SylCall ==
    /\ pc = "input"
    /\ syllables' = syllabify(word, strict)
    /\ pc' = "done"
    /\ UNCHANGED <<word, strict, again, normVars, tokVars, stemmed, restVars>>

SylAgain ==
    /\ pc = "done"
    /\ again' = syllabify(Join(syllables), strict)
    /\ pc' = "again"
    /\ UNCHANGED <<word, strict, syllables, normVars, tokVars, stemmed, restVars>>

SylNext == SylType \/ SylCall \/ SylAgain

SpecSyl == SylInit /\ [][SylNext]_vars

(***************************************************************************)
(* Syllabifier claims                                                      *)
(***************************************************************************)
\* the word got past every pre-check of syllabify (lines 43-57)
PassesPreChecks(w, st) ==
    /\ w # <<>>
    /\ ~IsBlank(w)
    /\ ~_contains_digit(_normalize_word(w))
    /\ _is_valid_word(_normalize_word(w))
    /\ st => StrictMatch(_normalize_word(w))

HasSeparator(w) == \E k \in DOMAIN w : w[k] \in {"'", "-"}

StripSeparators(w) == SelectSeq(w, LAMBDA c : c \notin {"'", "-"})

\* C1 as stated: for every word that passes the pre-checks, the syllables
\* concatenate to exactly the folded, lower-cased word.
C1_ReconstructionAsStated ==
    (pc = "done" /\ PassesPreChecks(word, strict))
        => Join(syllables) = _normalize_word(word)

\* C1 amended: for every word that passes the pre-checks, the syllables
\* concatenate to the folded, lower-cased word with its apostrophes and
\* hyphens removed (so to exactly that word when it has none).
C1_Reconstruction ==
    (pc = "done" /\ PassesPreChecks(word, strict))
        => Join(syllables) = StripSeparators(_normalize_word(word))

\* a word with a hyphen between two parts was syllabified into two syllables
C1_Witness ==
    /\ pc = "done"
    /\ PassesPreChecks(word, strict)
    /\ "-" \in Range(word)
    /\ Len(syllables) = 2
    /\ Join(syllables) # _normalize_word(word)

\* C2 as stated: for every word that passes the pre-checks, syllabifying the
\* concatenation of its syllables gives the same syllables again.
C2_IdempotenceAsStated ==
    (pc = "again" /\ PassesPreChecks(word, strict)) => again = syllables

\* C2 amended: syllabifying the concatenation of the syllables of W gives the
\* syllables of the folded, lower-cased W without its apostrophes and hyphens
\* (so the syllables of W again when W has no separator).
C2_Idempotence ==
    (pc = "again" /\ PassesPreChecks(word, strict))
        => /\ again = syllabify(StripSeparators(_normalize_word(word)), strict)
           /\ ~HasSeparator(_normalize_word(word)) => again = syllables

\* a separator-free word of two syllables was syllabified twice
C2_Witness ==
    /\ pc = "again"
    /\ PassesPreChecks(word, strict)
    /\ ~HasSeparator(_normalize_word(word))
    /\ Len(syllables) = 2
    /\ again = syllables

\* C18: a word that is empty or blank, or contains a digit, or contains a
\* character that is not a letter, an apostrophe or a hyphen, has no
\* syllables.
C18_PreChecks ==
    (pc = "done"
        /\ \/ IsBlank(word)
           \/ \E k \in DOMAIN word : word[k] \in Digits
           \/ \E k \in DOMAIN word :
                  word[k] \notin AsciiLetters \cup Latin1Letters \cup Separators)
        => syllables = <<>>

\* the parts of a word between its apostrophes and hyphens, in order
RECURSIVE CutAtSeparators(_)
CutAtSeparators(w) ==
    IF ~HasSeparator(w) THEN <<w>>
    ELSE LET p == CHOOSE k \in DOMAIN w :
                      /\ w[k] \in Separators
                      /\ \A j \in 1..(k - 1) : w[j] \notin Separators
         IN  <<SubSeq(w, 1, p - 1)>>
                 \o CutAtSeparators(SubSeq(w, p + 1, Len(w)))

\* the syllables of the parts, one part after the other
RECURSIVE SyllablesOfParts(_, _)
SyllablesOfParts(parts, st) ==
    IF parts = <<>> THEN <<>>
    ELSE syllabify(Head(parts), st) \o SyllablesOfParts(Tail(parts), st)

\* C19: the syllables of a word that passes the pre-checks and contains
\* apostrophes or hyphens are the syllables of its parts between the
\* separators, one part after the other, and no syllable contains an
\* apostrophe or a hyphen.
C19_SeparatorSplitting ==
    (pc = "done" /\ PassesPreChecks(word, strict) /\ HasSeparator(word))
        => /\ syllables = SyllablesOfParts(CutAtSeparators(word), strict)
           /\ \A k \in DOMAIN syllables : ~HasSeparator(syllables[k])

\* a word with an apostrophe and a hyphen, cut into three parts, came back
\* as the syllables of its parts, the first and the last of which differ
C19_Witness ==
    /\ pc = "done"
    /\ PassesPreChecks(word, strict)
    /\ "'" \in Range(word)
    /\ "-" \in Range(word)
    /\ Len(CutAtSeparators(word)) >= 3
    /\ Len(syllables) >= 2
    /\ syllables[1] # syllables[Len(syllables)]
    /\ syllables = SyllablesOfParts(CutAtSeparators(word), strict)

(***************************************************************************)
(* Both splitters: the caller types a word of letters and hands it to      *)
(* Syllabifier.syllabify and then to alphabet.split_into_syllables.        *)
(***************************************************************************)
ParseAlphabet == {"a", "i", "b", "s", "h"}

ParseInit ==
    /\ pc = "input"
    /\ word = <<>>
    /\ strict \in BOOLEAN
    /\ syllables = <<>>
    /\ again = <<>>
    /\ config = NoConfig
    /\ normalized = <<>>
    /\ renormalized = <<>>
    /\ RestIdle
    /\ TokIdle

ParseType ==
    /\ pc = "input"
    /\ Len(word) < MaxParseLen
    /\ \E c \in ParseAlphabet : word' = Append(word, c)
    /\ UNCHANGED <<pc, strict, sylVars, normVars, tokVars, stemmed, restVars>>

ParseSyllabify ==
    /\ pc = "input"
    /\ syllables' = syllabify(word, strict)
    /\ pc' = "done"
    /\ UNCHANGED <<word, strict, again, normVars, tokVars, stemmed, restVars>>

ParseSplit ==
    /\ pc = "done"
    /\ split_loop' = IF SplitReturnsEarly(word) THEN NoSplit
                     ELSE SplitLoop(SplitEnter(word))
    /\ pc' = "both"
    /\ UNCHANGED <<word, strict, sylVars, normVars, tokVars, stemmed,
                   stopVars, tags, valVars, mutVars>>

ParseNext == ParseType \/ ParseSyllabify \/ ParseSplit

SpecParse == ParseInit /\ [][ParseNext]_vars

(***************************************************************************)
(* Claims about the parse loop                                             *)
(***************************************************************************)
\* the syllables the loop of lines 71-105 parsed in a word
ParsedSyllables(w) == ParseLoop(w, 0, <<>>).syllables

\* the trailing span of a word behind its parsed syllables
TrailingSpan(w) == Slice(w, Len(Join(ParsedSyllables(w))), Len(w))

\* C22: when the loop leaves a trailing span behind the syllables it
\* parsed, the result is the parsed syllables with the span appended to the
\* last of them, and the span alone when no syllable was parsed.
C22_LeftoverAttachment ==
    (pc = "done" /\ word # <<>> /\ TrailingSpan(word) # <<>>)
        => syllables =
              IF ParsedSyllables(word) # <<>>
              THEN [ParsedSyllables(word)
                       EXCEPT ![Len(ParsedSyllables(word))]
                                  = @ \o TrailingSpan(word)]
              ELSE <<TrailingSpan(word)>>

\* the position behind the k-th of the syllables
EndOf(syls, k) == Len(Join(SubSeq(syls, 1, k)))

\* the positions p..q of the word lie in one of the syllables
InOneSyllable(syls, p, q) ==
    \E k \in DOMAIN syls : EndOf(syls, k - 1) < p /\ q <= EndOf(syls, k)

\* the consonant at position p, behind a nucleus, is the last character of
\* the word or is followed by a consonant with which it forms no digraph
ClosesSyllable(w, p) ==
    \/ p = Len(w)
    \/ /\ is_consonant(w[p + 1])
       /\ <<w[p], w[p + 1]>> \notin digraphs

\* C23: in the syllables the loop parses, the consonant behind a nucleus
\* belongs to the syllable of the nucleus exactly when it is the last
\* character of the word or is followed by a consonant with which it forms
\* no digraph, and a second consonant never does; the parsed syllables are
\* the result when they cover the word.
C23_CodaStep ==
    (pc = "done" /\ word # <<>>)
        => /\ \A p \in 1..(Len(word) - 1) :
                 (is_vowel(word[p]) /\ is_consonant(word[p + 1]))
                     => /\ InOneSyllable(ParsedSyllables(word), p, p + 1)
                               <=> ClosesSyllable(word, p + 1)
                        /\ p + 2 <= Len(word) /\ is_consonant(word[p + 2])
                               => ~InOneSyllable(ParsedSyllables(word), p, p + 2)
           /\ TrailingSpan(word) = <<>> => syllables = ParsedSyllables(word)

\* a word with a doubled consonant between two vowels and a final consonant
\* came back cut between the two consonants, the final one closing the last
\* syllable
C23_Witness ==
    /\ pc = "done"
    /\ Len(word) = 5
    /\ Len(syllables) = 2
    /\ is_consonant(syllables[1][Len(syllables[1])])
    /\ syllables[1][Len(syllables[1])] = syllables[2][1]
    /\ is_vowel(syllables[2][2])
    /\ is_consonant(word[5])
    /\ Join(syllables) = word

\* C24: no boundary between two consecutive syllables of the result falls
\* between the two letters of a digraph.
C24_DigraphsUnsplit ==
    pc = "done"
        => \A k \in 1..(Len(syllables) - 1) :
              <<Join(syllables)[EndOf(syllables, k)],
                Join(syllables)[EndOf(syllables, k) + 1]>> \notin digraphs

\* a word with a digraph behind another consonant came back cut in front of
\* the digraph, which opens the second syllable
C24_Witness ==
    /\ pc = "done"
    /\ Len(syllables) = 2
    /\ is_consonant(syllables[1][Len(syllables[1])])
    /\ Len(syllables[2]) >= 3
    /\ SubSeq(syllables[2], 1, 2) \in digraphs
    /\ Join(syllables) = word

\* the vowels of a syllable, in order
VowelsOf(s) == SelectSeq(s, is_vowel)

\* the number of maximal runs of consecutive vowels in a word
VowelRuns(w) ==
    Cardinality({k \in DOMAIN w :
                    is_vowel(w[k]) /\ (k = 1 \/ ~is_vowel(w[k - 1]))})

\* C21 as stated: the nucleus of every syllable the loop parses is one
\* diphthong of the fixed set or a single vowel.
C21_NucleusAsStated ==
    (pc = "done" /\ word # <<>>)
        => \A k \in DOMAIN ParsedSyllables(word) :
              LET v == VowelsOf(ParsedSyllables(word)[k])
              IN  \/ Len(v) = 1
                  \/ Len(v) = 2 /\ <<upper(v[1]), upper(v[2])>> \in DIPHTHONGS

\* C21 amended: the nucleus of every syllable the loop parses is a whole
\* maximal run of consecutive vowels, whatever its length and its vowels:
\* the loop parses one syllable for each vowel run of the word, every
\* parsed syllable holds exactly one run, and no boundary of the result
\* falls between two vowels.
C21_Nucleus ==
    (pc = "done" /\ word # <<>>)
        => /\ Len(ParsedSyllables(word)) = VowelRuns(word)
           /\ \A k \in DOMAIN ParsedSyllables(word) :
                 VowelRuns(ParsedSyllables(word)[k]) = 1
           /\ TrailingSpan(word) = <<>> => syllables = ParsedSyllables(word)
           /\ \A k \in 1..(Len(syllables) - 1) :
                 ~(/\ is_vowel(Join(syllables)[EndOf(syllables, k)])
                   /\ is_vowel(Join(syllables)[EndOf(syllables, k) + 1]))

\* a word with a run of three vowels, not all the same, came back with the
\* run in one of its two syllables
C21_Witness ==
    /\ pc = "done"
    /\ Len(syllables) = 2
    /\ \E k \in DOMAIN syllables :
          /\ Len(VowelsOf(syllables[k])) = 3
          /\ Cardinality(Range(VowelsOf(syllables[k]))) = 2
    /\ Join(syllables) = word

\* C30: for a non-empty word of letters, the syllables of syllabify, in
\* upper case, are the syllables of split_into_syllables, one by one.
C30_SplittersAgree ==
    (pc = "both" /\ word # <<>>)
        => split_loop.syllables
              = [k \in DOMAIN syllables |->
                    [j \in DOMAIN syllables[k] |-> upper(syllables[k][j])]]

(***************************************************************************)
(* split_into_syllables, one loop iteration at a time: the caller types a  *)
(* string of any characters and calls the function, which enters its loop, *)
(* runs one iteration after the other and returns when the index has       *)
(* reached the end.                                                        *)
(***************************************************************************)
SplitAlphabet == {"a", "b", "h", "U+00E9", "'", "1", " "}

SplitInit ==
    /\ pc = "input"
    /\ word = <<>>
    /\ strict = FALSE
    /\ syllables = <<>>
    /\ again = <<>>
    /\ config = NoConfig
    /\ normalized = <<>>
    /\ renormalized = <<>>
    /\ RestIdle
    /\ TokIdle

SplitType ==
    /\ pc = "input"
    /\ Len(word) < MaxSplitLen
    /\ \E c \in SplitAlphabet : word' = Append(word, c)
    /\ UNCHANGED <<pc, strict, sylVars, normVars, tokVars, stemmed, restVars>>

\* lines 158-164
SplitCall ==
    /\ pc = "input"
    /\ IF SplitReturnsEarly(word)
       THEN pc' = "done" /\ split_loop' = NoSplit
       ELSE pc' = "loop" /\ split_loop' = SplitEnter(word)
    /\ UNCHANGED <<word, strict, sylVars, normVars, tokVars, stemmed,
                   stopVars, tags, valVars, mutVars>>

\* lines 166-191, one iteration
SplitStep ==
    /\ pc = "loop"
    /\ split_loop.i < Len(split_loop.word)
    /\ split_loop' = SplitIteration(split_loop)
    /\ UNCHANGED <<pc, word, strict, sylVars, normVars, tokVars, stemmed,
                   stopVars, tags, valVars, mutVars>>

\* line 193
SplitReturn ==
    /\ pc = "loop"
    /\ split_loop.i >= Len(split_loop.word)
    /\ pc' = "done"
    /\ UNCHANGED <<word, strict, sylVars, normVars, tokVars, stemmed, restVars>>

SplitNext == SplitType \/ SplitCall \/ SplitStep \/ SplitReturn

SpecSplit == SplitInit /\ [][SplitNext]_vars

\* the interpreter keeps running a call that has started
SpecSplitFair ==
    SpecSplit /\ WF_vars(SplitStep) /\ WF_vars(SplitReturn)

\* C25: a call of split_into_syllables that has entered its loop returns.
C25_Terminates == (pc = "loop") ~> (pc = "done")

(***************************************************************************)
(* Tokenizer: the caller types a text and calls the four operations of a   *)
(* QubeeTokenizer on it in turn.                                           *)
(***************************************************************************)
TokAlphabet == {"a", "B", "U+00E9", "'", "-", " ", "1", "!"}

TokInit ==
    /\ pc = "input"
    /\ word = <<>>
    /\ strict \in BOOLEAN
    /\ preserve_case \in BOOLEAN
    /\ syllables = <<>>
    /\ again = <<>>
    /\ config = NoConfig
    /\ normalized = <<>>
    /\ renormalized = <<>>
    /\ RestIdle
    /\ tokens = NotCalled
    /\ positions = NotCalled
    /\ contexts = NotCalled
    /\ sentences = NotCalled
    /\ stemmed = <<>>

TokType ==
    /\ pc = "input"
    /\ Len(word) < MaxTokTextLen
    /\ \E c \in TokAlphabet : word' = Append(word, c)
    /\ UNCHANGED <<pc, strict, sylVars, normVars, tokVars, stemmed, restVars>>

Tokenize ==
    /\ pc = "input"
    /\ tokens' = tokenize(word, preserve_case, strict)
    /\ pc' = "tokenized"
    /\ UNCHANGED <<word, strict, sylVars, normVars, stemmed,
                   preserve_case, positions, contexts, sentences, restVars>>

TokenizeWithPositions ==
    /\ pc = "tokenized"
    /\ positions' = tokenize_with_positions(word, preserve_case, strict)
    /\ pc' = "positioned"
    /\ UNCHANGED <<word, strict, sylVars, normVars, stemmed,
                   preserve_case, tokens, contexts, sentences, restVars>>

TokenizeWithContext ==
    /\ pc = "positioned"
    /\ \E n \in 0..MaxContextChars :
          contexts' = tokenize_with_context(word, n, preserve_case, strict)
    /\ pc' = "contexted"
    /\ UNCHANGED <<word, strict, sylVars, normVars, stemmed,
                   preserve_case, tokens, positions, sentences, restVars>>

SentenceTokenize ==
    /\ pc = "contexted"
    /\ sentences' = sentence_tokenize(word, preserve_case, strict)
    /\ pc' = "done"
    /\ UNCHANGED <<word, strict, sylVars, normVars, stemmed,
                   preserve_case, tokens, positions, contexts, restVars>>

TokNext ==
    \/ TokType
    \/ Tokenize
    \/ TokenizeWithPositions
    \/ TokenizeWithContext
    \/ SentenceTokenize

SpecTok == TokInit /\ [][TokNext]_vars

(***************************************************************************)
(* Tokenizer claims                                                        *)
(***************************************************************************)
HasDigit(t) == \E k \in DOMAIN t : t[k] \in Digits

\* a span t[s:e] of letters joined by single separators, a letter at each end
ValidSpan(t, s, e) ==
    /\ 0 <= s /\ s < e /\ e <= Len(t)
    /\ IsPatternLetter(At(t, s))
    /\ IsPatternLetter(At(t, e - 1))
    /\ \A k \in s..(e - 1) :
          \/ IsPatternLetter(At(t, k))
          \/ /\ At(t, k) \in Separators
             /\ IsPatternLetter(At(t, k - 1))
             /\ IsPatternLetter(At(t, k + 1))

WellFormedToken(tk) == ValidSpan(tk, 0, Len(tk))

\* C4: when tokenize and tokenize_with_positions both return, they give the
\* same number of tokens and the same token strings, in the same order.
C4_SameTokens ==
    (tokens.status = "ok" /\ positions.status = "ok")
        => /\ Len(tokens.value) = Len(positions.value)
           /\ \A k \in DOMAIN tokens.value :
                 tokens.value[k] = positions.value[k].token

\* both calls returned two tokens or more, one of them changed by normalisation
C4_Witness ==
    /\ tokens.status = "ok"
    /\ positions.status = "ok"
    /\ Len(positions.value) >= 2
    /\ \E k \in DOMAIN positions.value :
          positions.value[k].token
              # Slice(word, positions.value[k].start, positions.value[k].end)

\* C5: every record of tokenize_with_positions has 0 <= start < end <= len(T)
\* and length = end - start, ends no later than the next record starts, and
\* holds the normalisation of T[start:end] as its token.
C5_Offsets ==
    positions.status = "ok"
        => \A k \in DOMAIN positions.value :
              LET r == positions.value[k]
              IN  /\ 0 <= r.start /\ r.start < r.end /\ r.end <= Len(word)
                  /\ r.length = r.end - r.start
                  /\ k < Len(positions.value)
                        => r.end <= positions.value[k + 1].start
                  /\ r.token
                        = _normalize_token(Slice(word, r.start, r.end), preserve_case)

\* two records, the first of an accented lower-case token that upper-casing
\* and diacritic stripping rewrite
C5_Witness ==
    /\ positions.status = "ok"
    /\ Len(positions.value) = 2
    /\ ~preserve_case
    /\ "U+00E9" \in Range(Slice(word, positions.value[1].start,
                                positions.value[1].end))
    /\ positions.value[2].start > 1

\* C6: every token is non-empty, starts and ends with a letter, has a letter
\* on both sides of every apostrophe or hyphen, and its span of the input
\* cannot be extended to a longer such span.
C6_TokenShape ==
    /\ tokens.status = "ok"
          => \A k \in DOMAIN tokens.value : WellFormedToken(tokens.value[k])
    /\ positions.status = "ok"
          => \A k \in DOMAIN positions.value :
                LET r == positions.value[k]
                IN  /\ WellFormedToken(r.token)
                    /\ ValidSpan(word, r.start, r.end)
                    /\ \A s \in 0..r.start : \A e \in r.end..Len(word) :
                          ValidSpan(word, s, e) => (s = r.start /\ e = r.end)

\* a token with an inner separator was cut out of a text that also has a
\* separator with no letter after it
C6_Witness ==
    /\ positions.status = "ok"
    /\ tokens.status = "ok"
    /\ Len(positions.value) = 1
    /\ \E k \in DOMAIN positions.value[1].token :
          positions.value[1].token[k] \in Separators
    /\ word[Len(word)] \in Separators

\* C7: in strict mode, a digit anywhere in the text makes each of the four
\* operations raise instead of returning.
C7_StrictDigits ==
    (strict /\ HasDigit(word))
        => /\ tokens.status \in {"none", "ValueError"}
           /\ positions.status \in {"none", "ValueError"}
           /\ contexts.status \in {"none", "ValueError"}
           /\ sentences.status \in {"none", "ValueError"}

\* the four operations were called in strict mode on a text with letters
\* followed by a digit, and all four raised
C7_Witness ==
    /\ pc = "done"
    /\ strict
    /\ Len(word) >= 2
    /\ IsPatternLetter(word[1])
    /\ word[Len(word)] \in Digits
    /\ tokens = ValueError
    /\ positions = ValueError
    /\ contexts = ValueError
    /\ sentences = ValueError

\* C8: in strict mode, a text without digits that is not blank and holds no
\* token makes tokenize, tokenize_with_positions and tokenize_with_context
\* raise.
C8_StrictNoTokens ==
    (pc = "done" /\ strict /\ ~HasDigit(word) /\ ~IsBlank(word)
                 /\ finditer(word, 0) = <<>>)
        => /\ tokens = ValueError
           /\ positions = ValueError
           /\ contexts = ValueError

(***************************************************************************)
(* Sentence tokenizer: the caller builds a text out of abbreviations,      *)
(* names, punctuation and spaces and calls sentence_tokenize on it.        *)
(***************************************************************************)
SentChunks ==
    {<<"D","r",".">>, <<"D","R",".">>, <<"m","r","s",".">>, <<"a","b">>,
     <<"A">>, <<" ">>, <<".">>, <<"!">>, <<"<","D","O","T",">">>}

SentInit ==
    /\ pc = "input"
    /\ word = <<>>
    /\ strict \in BOOLEAN
    /\ preserve_case \in BOOLEAN
    /\ syllables = <<>>
    /\ again = <<>>
    /\ config = NoConfig
    /\ normalized = <<>>
    /\ renormalized = <<>>
    /\ RestIdle
    /\ tokens = NotCalled
    /\ positions = NotCalled
    /\ contexts = NotCalled
    /\ sentences = NotCalled
    /\ stemmed = <<>>

SentType ==
    /\ pc = "input"
    /\ \E c \in SentChunks :
          /\ Len(word) + Len(c) <= MaxSentLen
          /\ word' = word \o c
    /\ UNCHANGED <<pc, strict, sylVars, normVars, tokVars, stemmed, restVars>>

SentCall ==
    /\ pc = "input"
    /\ sentences' = sentence_tokenize(word, preserve_case, strict)
    /\ pc' = "done"
    /\ UNCHANGED <<word, strict, sylVars, normVars, stemmed,
                   preserve_case, tokens, positions, contexts, restVars>>

SentNext == SentType \/ SentCall

SpecSent == SentInit /\ [][SentNext]_vars

\* a protected abbreviation in any capitalisation, a space, a name, a period
IsAbbreviationThenName(t) ==
    \E a \in _abbreviations :
        /\ Len(t) >= Len(a) + 3
        /\ Upper(SubSeq(t, 1, Len(a))) = a
        /\ t[Len(a) + 1] = " "
        /\ t[Len(t)] = "."
        /\ \A k \in (Len(a) + 2)..(Len(t) - 1) : IsPatternLetter(t[k])
        /\ Upper(SubSeq(t, Len(a) + 2, Len(t))) \notin _abbreviations

\* C9: an abbreviation (however capitalised), a space and a name ending in a
\* period come back as exactly one sentence, under both case policies.
C9_AbbreviationProtected ==
    (pc = "done" /\ sentences.status = "ok" /\ IsAbbreviationThenName(word))
        => Len(sentences.value) = 1

\* the characters of a text that are no whitespace, in order
NonSpace(t) == SelectSeq(t, LAMBDA c : ~isspace(c))

\* C29: without the strict flag, the characters of the sentences that are
\* no whitespace, taken together in order, are those of the text with its
\* diacritics stripped and its case normalised.
C29_SplitsAndTrimsOnly ==
    (pc = "done" /\ ~strict /\ sentences.status = "ok")
        => NonSpace(Join(sentences.value))
              = NonSpace(IF preserve_case
                         THEN QubeeTokenizer_strip_diacritics(word)
                         ELSE Upper(QubeeTokenizer_strip_diacritics(word)))

(***************************************************************************)
(* Stemmer: the caller builds a word from letters and whole forms and      *)
(* stems it.                                                               *)
(***************************************************************************)
StemChunks ==
    {<<"b">>, <<"O">>, <<"T">>, <<"A">>, <<"N">>, <<"I">>, <<"U+00E1">>,
     <<"F","I","D","A","N">>}

StemInit ==
    /\ pc = "input"
    /\ word = <<>>
    /\ strict = FALSE
    /\ syllables = <<>>
    /\ again = <<>>
    /\ config = NoConfig
    /\ normalized = <<>>
    /\ renormalized = <<>>
    /\ RestIdle
    /\ TokIdle
    /\ stemmed = <<>>

StemType ==
    /\ pc = "input"
    /\ \E c \in StemChunks :
          /\ Len(word) + Len(c) <= MaxStemLen
          /\ word' = word \o c
    /\ UNCHANGED <<pc, strict, sylVars, normVars, tokVars, stemmed, restVars>>

StemCall ==
    /\ pc = "input"
    /\ stemmed' = stem(word)
    /\ pc' = "done"
    /\ UNCHANGED <<word, strict, sylVars, normVars, tokVars, restVars>>

StemNext == StemType \/ StemCall

SpecStem == StemInit /\ [][StemNext]_vars

(***************************************************************************)
(* Stemmer claims                                                          *)
(***************************************************************************)
SuffixSet == {suffixes[k].suffix : k \in DOMAIN suffixes}

Folded(w) == normalize_diacritics(Upper(w))

WithoutSuffix(w, suffix) == SubSeq(w, 1, Len(w) - Len(suffix))

\* the word ends in two suffixes of the table of different lengths
MatchesTwoSuffixes(w) ==
    LET matching == {x \in SuffixSet : EndsWith(w, x)}
    IN  \E s1, s2 \in matching : Len(s1) # Len(s2)

\* C10 as stated: a word outside the irregular table that ends in two
\* suffixes of different lengths is stemmed to the word without the longer
\* of the two.
C10_LongerSuffixAsStated ==
    (pc = "done" /\ Folded(word) \notin IrregularKeys)
        => LET matching == {x \in SuffixSet : EndsWith(Folded(word), x)}
           IN  \A s1, s2 \in matching :
                  Len(s1) > Len(s2) => stemmed = WithoutSuffix(Folded(word), s1)

\* C10 amended: a word outside the irregular table that ends in two suffixes
\* of different lengths is stemmed to the word without the longest suffix it
\* ends in that is shorter than the word itself, provided at least 2
\* characters remain; otherwise the stem is the whole word.
C10_LongestSuffix ==
    (pc = "done" /\ Folded(word) \notin IrregularKeys
                 /\ MatchesTwoSuffixes(Folded(word)))
        => LET w == Folded(word)
               proper == {x \in SuffixSet : EndsWith(w, x) /\ Len(x) < Len(w)}
               longest == CHOOSE x \in proper :
                              \A y \in proper : Len(y) <= Len(x)
           IN  IF proper # {} /\ Len(w) - Len(longest) >= 2
               THEN stemmed = WithoutSuffix(w, longest)
               ELSE stemmed = w

\* a lower-case or accented word ending in OTA and TA lost OTA and kept 2
\* characters
C10_Witness ==
    /\ pc = "done"
    /\ Folded(word) \notin IrregularKeys
    /\ MatchesTwoSuffixes(Folded(word))
    /\ word # Folded(word)
    /\ EndsWith(Folded(word), <<"O","T","A">>)
    /\ stemmed = WithoutSuffix(Folded(word), <<"O","T","A">>)
    /\ Len(stemmed) >= 2

\* C12: when removing the selected suffix (the longest table suffix the
\* folded word ends in that is shorter than the word) would leave fewer than
\* 2 characters, the stem is the unstripped folded word; the stem of a word
\* of at least 2 characters has at least 2 characters, and the stem of a
\* non-empty word is not empty.
C12_MinimumLength ==
    pc = "done"
        => LET w == Folded(word)
               proper == {x \in SuffixSet : EndsWith(w, x) /\ Len(x) < Len(w)}
               selected == CHOOSE x \in proper :
                               \A y \in proper : Len(y) <= Len(x)
           IN  /\ (w \notin IrregularKeys /\ proper # {}
                      /\ Len(w) - Len(selected) < 2) => stemmed = w
               /\ Len(word) >= 2 => Len(stemmed) >= 2
               /\ word # <<>> => stemmed # <<>>

\* a two-letter word written in lower case ends in the suffix I, which would
\* leave one character, and came back whole in upper case
C12_Witness ==
    /\ pc = "done"
    /\ Len(word) = 2
    /\ word # Folded(word)
    /\ EndsWith(Folded(word), <<"I">>)
    /\ stemmed = Folded(word)

(***************************************************************************)
(* Irregular forms: the caller takes a key of the irregular table,         *)
(* rewrites letters of it in lower case or with an acute accent, and stems *)
(* the result.                                                             *)
(***************************************************************************)
\* the ways of writing an upper-case letter of a table key: its two cases
\* and, for a vowel, its two acute-accented forms
Spellings(c) ==
    {c, lower(c)} \cup
        (CASE c = "A" -> {"U+00C1", "U+00E1"}
           [] c = "E" -> {"U+00C9", "U+00E9"}
           [] c = "I" -> {"U+00CD", "U+00ED"}
           [] c = "O" -> {"U+00D3", "U+00F3"}
           [] c = "U" -> {"U+00DA", "U+00FA"}
           [] OTHER -> {})

IrrInit ==
    /\ pc = "input"
    /\ word \in IrregularKeys
    /\ strict = FALSE
    /\ syllables = <<>>
    /\ again = <<>>
    /\ config = NoConfig
    /\ normalized = <<>>
    /\ renormalized = <<>>
    /\ RestIdle
    /\ TokIdle
    /\ stemmed = <<>>

IrrRewrite ==
    /\ pc = "input"
    /\ \E k \in DOMAIN word :
          \E c \in Spellings(DIACRITICS(upper(word[k]))) \ {word[k]} :
              word' = [word EXCEPT ![k] = c]
    /\ UNCHANGED <<pc, strict, sylVars, normVars, tokVars, stemmed, restVars>>

IrrCall ==
    /\ pc = "input"
    /\ stemmed' = stem(word)
    /\ pc' = "done"
    /\ UNCHANGED <<word, strict, sylVars, normVars, tokVars, restVars>>

IrrNext == IrrRewrite \/ IrrCall

SpecIrr == IrrInit /\ [][IrrNext]_vars

\* the word is a spelling of the table key: letter by letter, the key's
\* letter in either case, with or without an acute accent on a vowel
IsSpellingOf(w, key) ==
    /\ Len(w) = Len(key)
    /\ \A k \in DOMAIN key : w[k] \in Spellings(key[k])

\* C11: a spelling of a key of the irregular table, in any letter case and
\* with or without acute accents on its vowels, is stemmed to the root the
\* table gives for that key; no suffix of the suffix table is removed from
\* it instead.
C11_IrregularWins ==
    pc = "done"
        => \A p \in irregular_forms :
              IsSpellingOf(word, p[1]) => stemmed = p[2]

\* a key that also ends in a table suffix (ATAN), written with a lower-case
\* letter and an accented vowel, got the table's root and not the word
\* without ATAN
C11_Witness ==
    /\ pc = "done"
    /\ \E p \in irregular_forms :
          /\ IsSpellingOf(word, p[1])
          /\ EndsWith(p[1], <<"A","T","A","N">>)
          /\ stemmed = p[2]
          /\ stemmed # WithoutSuffix(p[1], <<"A","T","A","N">>)
    /\ \E k \in DOMAIN word : word[k] \in Range(LowerAscii)
    /\ \E k \in DOMAIN word : word[k] \in {"U+00C1", "U+00E1"}

(***************************************************************************)
(* Stop-word filter: the caller builds a StopWords instance, may add and   *)
(* discard words, collects a token list and filters it.                    *)
(***************************************************************************)
\* tokens: empty, a stop word in lower case, its variants with the suffixes
\* N, TI and SAA, a word that is a stop word only with the categories, and
\* words that are no stop words
StopVocabulary ==
    {<<>>, <<"f","i">>, <<"F","I","N">>, <<"n","u","t","i">>,
     <<"i","s","a","s","a","a">>, <<"k","e","e">>, <<"b","a","r">>,
     <<"B","a","r","i">>}

StopInit ==
    /\ pc = "input"
    /\ word = <<>>
    /\ strict = FALSE
    /\ syllables = <<>>
    /\ again = <<>>
    /\ config = NoConfig
    /\ normalized = <<>>
    /\ renormalized = <<>>
    /\ TokIdle
    /\ \E include_common \in BOOLEAN : stopwords = NewStopWords(include_common)
    /\ words = <<>>
    /\ check_variants = TRUE
    /\ kept = <<>>
    /\ tags = <<>>
    /\ validation = NotCalled
    /\ char_class = NotCalled
    /\ check_level = "basic"
    /\ report = NotCalled
    /\ split_loop = NoSplit
    /\ MutIdle

StopAppend ==
    /\ pc = "input"
    /\ Len(words) < MaxTokens
    /\ \E t \in StopVocabulary : words' = Append(words, t)
    /\ UNCHANGED <<pc, word, strict, sylVars, normVars, tokVars, stemmed,
                   stopwords, check_variants, kept, tags, valVars,
                   split_loop, mutVars>>

StopAdd ==
    /\ pc = "input"
    /\ \E t \in {<<"b","a","r">>, <<>>} :
          stopwords' = add_stopwords(<<t>>, stopwords)
    /\ UNCHANGED <<pc, word, strict, sylVars, normVars, tokVars, stemmed,
                   words, check_variants, kept, tags, valVars,
                   split_loop, mutVars>>

StopDiscard ==
    /\ pc = "input"
    /\ stopwords' = remove_stopwords_set({<<"f","i">>}, stopwords)
    /\ UNCHANGED <<pc, word, strict, sylVars, normVars, tokVars, stemmed,
                   words, check_variants, kept, tags, valVars,
                   split_loop, mutVars>>

StopRemove ==
    /\ pc = "input"
    /\ \E cv \in BOOLEAN :
          /\ check_variants' = cv
          /\ kept' = remove_stopwords(words, cv, stopwords)
    /\ pc' = "done"
    /\ UNCHANGED <<word, strict, sylVars, normVars, tokVars, stemmed,
                   stopwords, words, tags, valVars,
                   split_loop, mutVars>>

StopNext == StopAppend \/ StopAdd \/ StopDiscard \/ StopRemove

SpecStop == StopInit /\ [][StopNext]_vars

\* the positions of the tokens that are no stop words, in increasing order
RECURSIVE KeptPositions(_)
KeptPositions(n) ==
    IF n = 0 THEN <<>>
    ELSE KeptPositions(n - 1)
             \o (IF is_stopword(words[n], check_variants, stopwords)
                 THEN <<>> ELSE <<n>>)

\* C13: remove_stopwords returns the input tokens for which is_stopword
\* (with the same check_variants) is false, each as often as it occurs and
\* in the order of the input, and returns no token for which is_stopword is
\* true.
C13_StopwordFilter ==
    pc = "done"
        => LET at == KeptPositions(Len(words))
           IN  /\ Len(kept) = Len(at)
               /\ \A k \in DOMAIN kept : kept[k] = words[at[k]]
               /\ \A k \in DOMAIN kept :
                      ~is_stopword(kept[k], check_variants, stopwords)

\* a token kept twice, and a token dropped only because a suffix variant of
\* it is a stop word
C13_Witness ==
    /\ pc = "done"
    /\ check_variants
    /\ \E i, j \in DOMAIN kept : i # j /\ kept[i] = kept[j]
    /\ \E k \in DOMAIN words :
          /\ is_stopword(words[k], TRUE, stopwords)
          /\ ~is_stopword(words[k], FALSE, stopwords)
    /\ Len(kept) < Len(words)

(***************************************************************************)
(* Stop-word set mutations: the caller builds a StopWords instance, adds   *)
(* and discards words in any order and asks is_stopword about them.        *)
(***************************************************************************)
\* a word outside the defaults, a default word, a variant of it with the
\* suffix N, a default word one of whose variants is a default word, and a
\* variant of the first word
MutationWords ==
    {<<"b","a","r">>, <<"f","i">>, <<"F","I","N">>, <<"i","s","a","n">>,
     <<"b","a","r","n">>}

MutInit ==
    /\ pc = "input"
    /\ word = <<>>
    /\ strict = FALSE
    /\ syllables = <<>>
    /\ again = <<>>
    /\ config = NoConfig
    /\ normalized = <<>>
    /\ renormalized = <<>>
    /\ TokIdle
    /\ \E include_common \in BOOLEAN : stopwords = NewStopWords(include_common)
    /\ words = <<>>
    /\ check_variants = TRUE
    /\ kept = <<>>
    /\ tags = <<>>
    /\ validation = NotCalled
    /\ char_class = NotCalled
    /\ check_level = "basic"
    /\ report = NotCalled
    /\ split_loop = NoSplit
    /\ last_mutation = [w \in MutationWords |-> "none"]
    /\ is_stop = NotCalled

MutAdd ==
    /\ \E w \in MutationWords :
          /\ stopwords' = add_stopwords(<<w>>, stopwords)
          /\ last_mutation' = [last_mutation EXCEPT ![w] = "add"]
    /\ pc' = "input"
    /\ is_stop' = NotCalled
    /\ UNCHANGED <<word, strict, sylVars, normVars, tokVars, stemmed,
                   words, check_variants, kept, tags, valVars, split_loop>>

MutDiscard ==
    /\ \E w \in MutationWords :
          /\ stopwords' = remove_stopwords_set({w}, stopwords)
          /\ last_mutation' = [last_mutation EXCEPT ![w] = "discard"]
    /\ pc' = "input"
    /\ is_stop' = NotCalled
    /\ UNCHANGED <<word, strict, sylVars, normVars, tokVars, stemmed,
                   words, check_variants, kept, tags, valVars, split_loop>>

MutAsk ==
    /\ \E w \in MutationWords, cv \in BOOLEAN :
          /\ word' = w
          /\ check_variants' = cv
          /\ is_stop' = Ok(is_stopword(w, cv, stopwords))
    /\ pc' = "done"
    /\ UNCHANGED <<strict, sylVars, normVars, tokVars, stemmed,
                   stopwords, words, kept, tags, valVars, split_loop,
                   last_mutation>>

MutNext == MutAdd \/ MutDiscard \/ MutAsk

SpecMut == MutInit /\ [][MutNext]_vars

\* C27 as stated: is_stopword(w) with default arguments is true when the
\* last call that named w added it and false when it discarded it.
C27_LastMutationAsStated ==
    (pc = "done" /\ check_variants)
        => /\ last_mutation[word] = "add" => is_stop.value
           /\ last_mutation[word] = "discard" => ~is_stop.value

\* C27 amended: is_stopword(w) is true when the last call that named w
\* added it; when it discarded w, the exact test (check_variants false) is
\* false, and the default test is true exactly when a variant base form of
\* w is in the set.
C27_LastMutation ==
    pc = "done"
        => /\ last_mutation[word] = "add" => is_stop.value
           /\ last_mutation[word] = "discard"
                 => (is_stop.value
                        <=> /\ check_variants
                            /\ \E k \in DOMAIN _get_variants(Upper(word)) :
                                   _get_variants(Upper(word))[k] \in stopwords)

\* a word was added and discarded again, and the default test still calls
\* it a stop word, while another word was added after its discard
C27_Witness ==
    /\ pc = "done"
    /\ check_variants
    /\ last_mutation[word] = "discard"
    /\ Upper(word) \notin stopwords
    /\ is_stop.value
    /\ \E w \in MutationWords : last_mutation[w] = "add"

(***************************************************************************)
(* POS tagger, one token: the caller types a token out of characters and   *)
(* whole words and tags the one-token list.                                *)
(***************************************************************************)
TagAlphabet == {"a", "i", "o", "w", "B", "1", ".", "-", "'", " ", "U+00C9"}

\* a word of the lexicon and of the preposition list, a word of the
\* preposition and of the conjunction list, a number word, a preposition
TagWords ==
    {<<"W","a","a","'","e","e">>, <<"F","I">>, <<"l","a","m","a">>,
     <<"g","a","r","a">>}

TagTokenInit ==
    /\ pc = "input"
    /\ word = <<>>
    /\ strict = FALSE
    /\ syllables = <<>>
    /\ again = <<>>
    /\ config = NoConfig
    /\ normalized = <<>>
    /\ renormalized = <<>>
    /\ RestIdle
    /\ TokIdle

TagTypeChar ==
    /\ pc = "input"
    /\ Len(word) < MaxTagLen
    /\ \E c \in TagAlphabet : word' = Append(word, c)
    /\ UNCHANGED <<pc, strict, sylVars, normVars, tokVars, stemmed, restVars>>

TagTypeWord ==
    /\ pc = "input"
    /\ Len(word) < MaxTagLen
    /\ \E w \in TagWords : word' = word \o w
    /\ UNCHANGED <<pc, strict, sylVars, normVars, tokVars, stemmed, restVars>>

TagOne ==
    /\ pc = "input"
    /\ words' = <<word>>
    /\ tags' = tag(<<word>>)
    /\ pc' = "done"
    /\ UNCHANGED <<word, strict, sylVars, normVars, tokVars, stemmed,
                   stopwords, check_variants, kept, valVars,
                   split_loop, mutVars>>

TagTokenNext == TagTypeChar \/ TagTypeWord \/ TagOne

SpecTagToken == TagTokenInit /\ [][TagTokenNext]_vars

\* the universal tag of the longest suffix of the table the token ends with
LongestSuffixTag(t, table) ==
    LET matching == {k \in DOMAIN table : EndsWith(t, table[k][1])}
        longest == CHOOSE k \in matching :
                       \A j \in matching :
                           Len(table[j][1]) <= Len(table[k][1])
    IN  map_to_universal(table[longest][2])

\* the rules of the cascade in the stated order, each with its condition on
\* the stripped, lower-cased token and its result
CascadeRules(t) ==
    <<[holds |-> \E p \in LEXICON : p[1] = t,
       tag |-> IF \E p \in LEXICON : p[1] = t
               THEN (CHOOSE p \in LEXICON : p[1] = t)[2] ELSE ""],
      [holds |-> t \in afaan_oromoo_numbers \/ IsDecimalNumber(t),
       tag |-> "NUM"],
      [holds |-> \A k \in DOMAIN t : t[k] \in PunctuationNoApostrophe,
       tag |-> "PUNC"],
      [holds |-> t \in PREPOSITIONS, tag |-> "ADP"],
      [holds |-> t \in {<<"f","i">>, <<"y","o","o","k","i","i","n">>},
       tag |-> "CONJ"],
      [holds |-> \E k \in DOMAIN VERB_SUFFIXES :
                     EndsWith(t, VERB_SUFFIXES[k][1]),
       tag |-> IF \E k \in DOMAIN VERB_SUFFIXES :
                      EndsWith(t, VERB_SUFFIXES[k][1])
               THEN LongestSuffixTag(t, VERB_SUFFIXES) ELSE ""],
      [holds |-> \E k \in DOMAIN NOUN_SUFFIXES :
                     EndsWith(t, NOUN_SUFFIXES[k][1]),
       tag |-> IF \E k \in DOMAIN NOUN_SUFFIXES :
                      EndsWith(t, NOUN_SUFFIXES[k][1])
               THEN LongestSuffixTag(t, NOUN_SUFFIXES) ELSE ""],
      [holds |-> \A k \in DOMAIN t : t[k] \in AsciiLetters \cup Separators,
       tag |-> IF \E k \in DOMAIN t : t[k] \in Separators THEN "NOUN"
               ELSE IF Len(t) >= 2
                        /\ SubSeq(t, Len(t) - 1, Len(t))
                               \in {<<"a","a">>, <<"o","o">>, <<"u","u">>}
                    THEN "ADJ" ELSE "UNK"],
      [holds |-> TRUE, tag |-> "X"]>>

\* the first rule of the cascade whose condition the token satisfies
FirstRule(t) ==
    CHOOSE i \in DOMAIN CascadeRules(t) :
        /\ CascadeRules(t)[i].holds
        /\ \A j \in 1..(i - 1) : ~CascadeRules(t)[j].holds

\* C14 as stated: the tag of every token is the result of the first rule,
\* in the order lexicon, numeral, punctuation, adposition, conjunction,
\* verb suffix, noun suffix, orthographic fallback, X, whose condition the
\* stripped, lower-cased token satisfies.
C14_CascadeOrderAsStated ==
    pc = "done"
        => LET t == Lower(Strip(word))
           IN  tags = <<CascadeRules(t)[FirstRule(t)].tag>>

\* C14 amended: the tag of a token that is not blank is the result of the first
\* rule, in the order lexicon, numeral, punctuation, adposition,
\* conjunction, verb suffix, noun suffix, orthographic fallback, X, whose
\* condition the stripped, lower-cased token satisfies; a word of the
\* lexicon gets the lexicon's tag even when a later word list has it too.
C14_CascadeOrder ==
    (pc = "done" /\ Strip(word) # <<>>)
        => LET t == Lower(Strip(word))
               rules == CascadeRules(t)
               first == CHOOSE i \in DOMAIN rules :
                            /\ rules[i].holds
                            /\ \A j \in 1..(i - 1) : ~rules[j].holds
           IN  /\ tags = <<rules[first].tag>>
               /\ \A p \in LEXICON : p[1] = t => tags = <<p[2]>>

\* a word of the lexicon (NOUN) that is also a preposition, typed with a
\* capital letter, was tagged NOUN
C14_Witness ==
    /\ pc = "done"
    /\ word # Lower(Strip(word))
    /\ Lower(Strip(word)) \in PREPOSITIONS
    /\ \E p \in LEXICON : p[1] = Lower(Strip(word))
    /\ tags = <<"NOUN">>

\* the tokens the caller can type, the words of the closed lists and a
\* word with each of the adjective endings
TagCandidates ==
    UNION {[1..n -> TagAlphabet] : n \in 0..MaxTagLen}
        \cup TagWords \cup PREPOSITIONS \cup afaan_oromoo_numbers
        \cup {p[1] : p \in LEXICON}
        \cup {<<"f","i">>, <<"y","o","o","k","i","i","n">>}
        \cup {<<"B","a","a">>, <<"B","o","o">>, <<"B","u","u">>}

\* the rules of the cascade: the index in CascadeRules and, for the
\* orthographic fallback, the tag it gives
TaggerRules ==
    {<<1, "">>, <<2, "">>, <<3, "">>, <<4, "">>, <<5, "">>, <<6, "">>,
     <<7, "">>, <<8, "NOUN">>, <<8, "ADJ">>, <<8, "UNK">>, <<9, "">>}

\* the tag of the token is decided by the rule
DecidedBy(token, rule) ==
    /\ Strip(token) # <<>>
    /\ FirstRule(Lower(Strip(token))) = rule[1]
    /\ _tag_token(token)
          = CascadeRules(Lower(Strip(token)))[rule[1]].tag
    /\ rule[2] # "" => _tag_token(token) = rule[2]

\* the rules that decide the tag of no token
DeadRules ==
    {rule \in TaggerRules : \A t \in TagCandidates : ~DecidedBy(t, rule)}

\* C28: for a caller who has yet to choose a token, every rule of the
\* cascade decides the tag of at least one token of the choice; in
\* particular the conjunction rule tags some token CONJ and the
\* adjective-ending fallback tags some token ADJ.
C28_NoDeadRule ==
    (pc = "input" /\ word = <<>>)
        => /\ DeadRules = {}
           /\ \E t \in TagCandidates :
                 DecidedBy(t, <<5, "">>) /\ _tag_token(t) = "CONJ"
           /\ \E t \in TagCandidates : DecidedBy(t, <<8, "ADJ">>)

(***************************************************************************)
(* POS tagger, token lists: the caller collects tokens and tags the list.  *)
(***************************************************************************)
\* an empty and a blank token, then one token for every rule of the
\* cascade: lexicon (NOUN, PRON, ADJ), number word, decimal number,
\* punctuation, preposition, verb suffix, noun suffix, hyphenated word,
\* unknown word, foreign letter
TagVocabulary ==
    {<<>>, <<" ">>, <<"W","a","a","'","e","e">>, <<"a","n","i">>,
     <<"g","u","d","d","a","a">>, <<"l","a","m","a">>, <<"1",".","5">>,
     <<"!">>, <<"g","a","r","a">>, <<"b","a","r","i">>, <<"w","w">>,
     <<"a","-","b">>, <<"b">>, <<"U+00C9">>}

TagInit ==
    /\ pc = "input"
    /\ word = <<>>
    /\ strict = FALSE
    /\ syllables = <<>>
    /\ again = <<>>
    /\ config = NoConfig
    /\ normalized = <<>>
    /\ renormalized = <<>>
    /\ RestIdle
    /\ TokIdle

TagAppend ==
    /\ pc = "input"
    /\ Len(words) < MaxTokens
    /\ \E t \in TagVocabulary : words' = Append(words, t)
    /\ UNCHANGED <<pc, word, strict, sylVars, normVars, tokVars, stemmed,
                   stopwords, check_variants, kept, tags, valVars,
                   split_loop, mutVars>>

TagCall ==
    /\ pc = "input"
    /\ tags' = tag(words)
    /\ pc' = "done"
    /\ UNCHANGED <<word, strict, sylVars, normVars, tokVars, stemmed,
                   stopVars, valVars,
                   split_loop, mutVars>>

TagNext == TagAppend \/ TagCall

SpecTag == TagInit /\ [][TagNext]_vars

\* C15: tag returns one tag per token, the k-th tag being the tag of the
\* k-th token; every tag is one of NOUN, VERB, ADJ, ADV, PRON, DET, ADP,
\* CONJ, PRT, INTJ, NUM, PUNC, X, UNK; the empty list gives the empty list
\* and an empty or blank token is tagged UNK.
C15_OneTagPerToken ==
    pc = "done"
        => /\ Len(tags) = Len(words)
           /\ \A k \in DOMAIN words :
                 /\ tags[k] = tag(<<words[k]>>)[1]
                 /\ tags[k] \in {"NOUN", "VERB", "ADJ", "ADV", "PRON", "DET",
                                 "ADP", "CONJ", "PRT", "INTJ", "NUM", "PUNC",
                                 "X", "UNK"}
                 /\ IsBlank(words[k]) => tags[k] = "UNK"
           /\ words = <<>> => tags = <<>>

\* a list with a blank token between two tokens of different tags
C15_Witness ==
    /\ pc = "done"
    /\ Len(words) >= 3
    /\ \E k \in 2..(Len(words) - 1) :
          /\ words[k] = <<" ">>
          /\ tags[k] = "UNK"
          /\ tags[k - 1] \notin {"UNK", tags[k + 1]}
          /\ tags[k + 1] # "UNK"

(***************************************************************************)
(* Validation: the caller types a text and hands it to validate_qubee_text,*)
(* to validate_text with a check level, or to validate_word.               *)
(***************************************************************************)
ValAlphabet == {"a", "B", "U+00E9", "U+00F8", "1", ".", "'", " "}

CheckLevels == {"basic", "strict", "full"}

ValInit ==
    /\ pc = "input"
    /\ word = <<>>
    /\ strict \in BOOLEAN
    /\ syllables = <<>>
    /\ again = <<>>
    /\ config = NoConfig
    /\ normalized = <<>>
    /\ renormalized = <<>>
    /\ RestIdle
    /\ TokIdle

ValType ==
    /\ pc = "input"
    /\ Len(word) < MaxValLen
    /\ \E c \in ValAlphabet : word' = Append(word, c)
    /\ UNCHANGED <<pc, strict, sylVars, normVars, tokVars, stemmed, restVars>>

ValidateQubeeText ==
    /\ pc = "input"
    /\ validation' = Ok(validate_qubee_text(word, strict))
    /\ pc' = "done"
    /\ UNCHANGED <<word, strict, sylVars, normVars, tokVars, stemmed,
                   stopVars, tags, char_class, check_level, report,
                   split_loop, mutVars>>

ValidateText ==
    /\ pc = "input"
    /\ \E level \in CheckLevels :
          /\ check_level' = level
          /\ report' = validate_text(word, level)
    /\ pc' = "reported"
    /\ UNCHANGED <<word, strict, sylVars, normVars, tokVars, stemmed,
                   stopVars, tags, validation, char_class,
                   split_loop, mutVars>>

ValidateWord ==
    /\ pc = "input"
    /\ \E check_vowels, check_consonants \in BOOLEAN :
          report' = validate_word(word, check_vowels, check_consonants)
    /\ check_level' = "word"
    /\ pc' = "reported"
    /\ UNCHANGED <<word, strict, sylVars, normVars, tokVars, stemmed,
                   stopVars, tags, validation, char_class,
                   split_loop, mutVars>>

ValNext == ValType \/ ValidateQubeeText \/ ValidateText \/ ValidateWord

SpecVal == ValInit /\ [][ValNext]_vars

\* the character is rejected in the mode: it is no whitespace and, strictly,
\* neither a Qubee letter in either case, an accented vowel, an apostrophe
\* nor a hyphen, or, otherwise, outside the valid characters
IsRejected(c, st) ==
    /\ ~isspace(c)
    /\ IF st THEN ~is_qubee_letter(c) /\ c \notin SPECIAL_CHARS
             ELSE c \notin VALID_CHARS

\* the position of the first occurrence of a character in a text
FirstOccurrence(c, t) ==
    CHOOSE k \in DOMAIN t : t[k] = c /\ \A j \in 1..(k - 1) : t[j] # c

\* C16: validate_qubee_text returns, without raising, a pair whose first
\* component holds exactly when the second is empty; the second lists every
\* rejected character of the text once, in the order of first occurrence,
\* and never a whitespace character.
C16_ValidationResult ==
    pc = "done"
        => /\ validation.status = "ok"
           /\ LET invalid == validation.value.invalid_chars
              IN  /\ validation.value.is_valid <=> invalid = <<>>
                  /\ Range(invalid)
                         = {c \in Range(word) : IsRejected(c, strict)}
                  /\ \A i, j \in DOMAIN invalid :
                        i < j => FirstOccurrence(invalid[i], word)
                                     < FirstOccurrence(invalid[j], word)
                  /\ \A k \in DOMAIN invalid : ~isspace(invalid[k])

\* a text with whitespace in which a rejected character occurs twice around
\* another rejected character gave the two characters, each once
C16_Witness ==
    /\ pc = "done"
    /\ \E k \in DOMAIN word : isspace(word[k])
    /\ Len(validation.value.invalid_chars) = 2
    /\ \E i, j \in DOMAIN word :
          /\ i + 1 < j
          /\ word[i] = word[j]
          /\ word[i] = validation.value.invalid_chars[1]
    /\ ~validation.value.is_valid

\* C20: validate_text, at every check level, and validate_word return their
\* structured result and raise nothing.
C20_NeverRaises ==
    pc = "reported" => report.status = "ok"

(***************************************************************************)
(* Character classification: the caller picks a character and asks         *)
(* is_vowel, is_consonant and is_qubee_letter about it.                    *)
(***************************************************************************)
Characters ==
    AsciiLetters \cup Latin1Letters \cup Digits \cup Whitespace
        \cup SPECIAL_CHARS \cup {".", "@"}

CharInit ==
    /\ pc = "input"
    /\ word \in {<<c>> : c \in Characters}
    /\ strict = FALSE
    /\ syllables = <<>>
    /\ again = <<>>
    /\ config = NoConfig
    /\ normalized = <<>>
    /\ renormalized = <<>>
    /\ RestIdle
    /\ TokIdle

Classify ==
    /\ pc = "input"
    /\ char_class' = Ok([is_vowel |-> is_vowel(word[1]),
                         is_consonant |-> is_consonant(word[1]),
                         is_qubee_letter |-> is_qubee_letter(word[1])])
    /\ pc' = "done"
    /\ UNCHANGED <<word, strict, sylVars, normVars, tokVars, stemmed,
                   stopVars, tags, validation, check_level, report,
                   split_loop, mutVars>>

CharNext == Classify

SpecChar == CharInit /\ [][CharNext]_vars

\* C17: a character is a consonant, a vowel or neither, never both, and
\* each accented vowel of the folding table, in either case, is a vowel like
\* its base vowel.
C17_Classification ==
    pc = "done"
        => /\ ~(char_class.value.is_vowel /\ char_class.value.is_consonant)
           /\ word[1] \in DiacriticKeys
                 => /\ char_class.value.is_vowel
                    /\ is_vowel(DIACRITICS(word[1]))

(***************************************************************************)
(* Normalizer: the caller types a text, picks a configuration, normalizes  *)
(* the text and normalizes the result with the same configuration.         *)
(***************************************************************************)
NormAlphabet == {"a", "U+00E1", "U+0301", "U+200B", "U+2026", "-", "_", " "}

NormInit ==
    /\ pc = "input"
    /\ word = <<>>
    /\ strict = FALSE
    /\ syllables = <<>>
    /\ again = <<>>
    /\ config = NoConfig
    /\ normalized = <<>>
    /\ renormalized = <<>>
    /\ RestIdle
    /\ TokIdle
    /\ stemmed = <<>>

NormType ==
    /\ pc = "input"
    /\ Len(word) < MaxTextLen
    /\ \E c \in NormAlphabet : word' = Append(word, c)
    /\ UNCHANGED <<pc, strict, sylVars, normVars, tokVars, stemmed, restVars>>

NormCall ==
    /\ pc = "input"
    /\ \E cfg \in Configs :
          /\ config' = cfg
          /\ normalized' = normalize(word, cfg)
    /\ pc' = "done"
    /\ UNCHANGED <<word, strict, sylVars, renormalized, tokVars, stemmed, restVars>>

NormAgain ==
    /\ pc = "done"
    /\ renormalized' = normalize(normalized, config)
    /\ pc' = "again"
    /\ UNCHANGED <<word, strict, sylVars, config, normalized, tokVars, stemmed, restVars>>

NormNext == NormType \/ NormCall \/ NormAgain

SpecNorm == NormInit /\ [][NormNext]_vars

\* C3: for every text and every fixed configuration, normalizing the
\* normalized text changes nothing.
C3_NormalizerIdempotent ==
    pc = "again" => renormalized = normalized

\* C26: with remove_special_chars enabled, the output holds no hyphen and
\* nothing but letters, digits, whitespace and apostrophes.
C26_SpecialCharsRemoved ==
    (pc = "done" /\ config.remove_special_chars)
        => \A k \in DOMAIN normalized :
              \/ normalized[k] \in AsciiLetters \cup Latin1Letters \cup Digits
              \/ isspace(normalized[k])
              \/ normalized[k] = "'"

====
